---- MODULE Spec2Model ----
(***************************************************************************)
(* Model of the tabular data-cleaning pipeline of                          *)
(* src/01_python/05_data_analysis/03_data_cleaning:                        *)
(*   01_missing_values.py, 02_outlier_handling.py,                         *)
(*   03_data_type_fixing.py, 04_feature_normalization.py.                  *)
(*                                                                         *)
(* Numbers are rationals n/d, each standing for the double nearest to it;  *)
(* where the rounding of a double decides what the code does (the absence  *)
(* rate compared with a threshold, the mean and the standard deviation of  *)
(* a column of equal values) the double is computed bit by bit and written *)
(* as the rational with the side the double lies on. A cell is a record of *)
(* one fixed shape so that any two cells can be compared:                  *)
(*   k = "na"    the absent value (NaN / NA / NaT)                         *)
(*   k = "num"   the rational n/d, d > 0, gcd(n, d) = 1; s = "-" or "+":   *)
(*               the double just below or above it                         *)
(*   k = "ulp"   (n/d) * u, u the distance between the value of a column   *)
(*               of equal values and its computed mean, when not 0         *)
(*   k = "per_ulp" (n/d) / u                                               *)
(*   k = "surd"  sign(n) * sqrt(|n|/d), |n|/d not a rational square        *)
(*   k = "log1p" log(1 + n/d), n/d > 0                                     *)
(*   k = "yj"    the fitted power transform applied to n/d                 *)
(*   k = "str"   the text s                                                *)
(*   k = "bool"  False (n = 0) or True (n = 1)                             *)
(* A DataFrame is [names: the column labels in order, cols: label ->       *)
(* [dtype, vals]]; objects live in a heap (a sequence of DataFrames) and   *)
(* locals hold references, so that in-place column assignment and          *)
(* rebinding are told apart.                                               *)
(***************************************************************************)
EXTENDS Integers, Sequences, FiniteSets, TLC

VARIABLES
    df,         \* the caller's table A (reference 1 of the heap), as it is now
    df2,        \* the caller's second table B (a different dataset)
    self,       \* the FeatureNormalizer instance: spec, params_, power_transformer_
    call,       \* the last call made: engine, arguments
    ret,        \* what the last call returned or raised
    hist,       \* history: what the last fit was given, and the state before the call
    pcF,        \* racing fit: position in its loop over cols
    pcT,        \* racing transform: position in its loop over cols
    loc         \* racing transform: its locals (working copy, values read so far)

vars == <<df, df2, self, call, ret, hist, pcF, pcT, loc>>

-----------------------------------------------------------------------------
(* Bounds of the model *)

MaxRows == 2

-----------------------------------------------------------------------------
(* Exact arithmetic on cells *)

RECURSIVE Gcd(_, _)
Gcd(a, b) == IF b = 0 THEN a ELSE Gcd(b, a % b)

Abs(i) == IF i < 0 THEN -i ELSE i

Sgn(i) == IF i < 0 THEN -1 ELSE IF i = 0 THEN 0 ELSE 1

RECURSIVE BitLen(_)
\* the number of binary digits of i >= 0
BitLen(i) == IF i = 0 THEN 0 ELSE 1 + BitLen(i \div 2)

NaN == [k |-> "na", n |-> 0, d |-> 1, s |-> ""]

Frac(n, d) ==
    LET g == Gcd(Abs(n), Abs(d))
        sg == IF d < 0 THEN -1 ELSE 1
    IN  [k |-> "num", n |-> (sg * n) \div g, d |-> (sg * d) \div g, s |-> ""]

Num(i) == [k |-> "num", n |-> i, d |-> 1, s |-> ""]

Str(t) == [k |-> "str", n |-> 0, d |-> 1, s |-> t]

Bool(b) == [k |-> "bool", n |-> IF b THEN 1 ELSE 0, d |-> 1, s |-> ""]

IsNa(x) == x.k = "na"

IsNum(x) == x.k = "num"

\* float arithmetic: anything with NaN is NaN
RAdd(x, y) == IF IsNum(x) /\ IsNum(y) THEN Frac(x.n * y.d + y.n * x.d, x.d * y.d) ELSE NaN

RSub(x, y) == IF IsNum(x) /\ IsNum(y) THEN Frac(x.n * y.d - y.n * x.d, x.d * y.d) ELSE NaN

RMul(x, y) == IF IsNum(x) /\ IsNum(y) THEN Frac(x.n * y.n, x.d * y.d) ELSE NaN

\* the callers guard the divisor; 0/0 and x/0 do not occur on a guarded path
RDiv(x, y) ==
    IF IsNum(x) /\ IsNum(y) /\ y.n # 0 THEN Frac(x.n * y.d, x.d * y.n) ELSE NaN

\* comparisons with NaN are False
RLt(x, y) == IsNum(x) /\ IsNum(y) /\ x.n * y.d < y.n * x.d

RLe(x, y) == IsNum(x) /\ IsNum(y) /\ x.n * y.d <= y.n * x.d

IsSquare(i) == \E r \in 0..i : r * r = i

ISqrt(i) == CHOOSE r \in 0..i : r * r = i

\* sign * sqrt(q) for a rational q >= 0, in canonical form
MkSurd(sign, q) ==
    IF ~IsNum(q) THEN NaN
    ELSE IF q.n = 0 \/ sign = 0 THEN Num(0)
    ELSE IF IsSquare(q.n) /\ IsSquare(q.d) THEN Frac(sign * ISqrt(q.n), ISqrt(q.d))
    ELSE [k |-> "surd", n |-> sign * q.n, d |-> q.d, s |-> ""]

\* the square of a num or surd cell, and its sign
SqOf(x) == IF x.k = "surd" THEN Frac(Abs(x.n), x.d) ELSE RMul(x, x)

SignOf(x) == Sgn(x.n)

\* a double written as the rational it rounds and the side of it the double lies on
\* ("-" below, "+" above, "" when it is that rational's nearest double): the side
FloatSide(x) == IF x.s = "-" THEN -1 ELSE IF x.s = "+" THEN 1 ELSE 0

\* (n/d) * u, u = |mean - v| > 0 of a constant column whose computed mean is not v
Ulp(n, d) == [Frac(n, d) EXCEPT !.k = "ulp"]

\* (n/d) / u
PerUlp(n, d) == [Frac(n, d) EXCEPT !.k = "per_ulp"]

\* the double x - m of two doubles: for the same rational, the sides decide
FloatSub(x, m) ==
    IF IsNum(x) /\ IsNum(m) /\ RSub(x, m).n = 0
    THEN (IF FloatSide(x) = FloatSide(m) THEN Num(0)
          ELSE Ulp(Sgn(FloatSide(x) - FloatSide(m)), 1))
    ELSE RSub(x, m)

\* x / y for a num or ulp x and a num, surd or ulp y # 0
DivStd(x, y) ==
    IF x.k = "ulp"
    THEN (IF y.k = "ulp" THEN Frac(x.n * y.d, x.d * y.n)
          ELSE IF IsNum(y) /\ y.n # 0 THEN Ulp(x.n * y.d, x.d * y.n)
          ELSE NaN)
    ELSE IF ~IsNum(x) \/ IsNa(y) THEN NaN
    ELSE IF IsNum(y) THEN RDiv(x, y)
    ELSE IF y.k = "ulp" THEN (IF x.n = 0 THEN Num(0) ELSE PerUlp(x.n * y.d, x.d * y.n))
    ELSE MkSurd(SignOf(x) * SignOf(y), RDiv(RMul(x, x), SqOf(y)))

\* e^5 - 1 = 147.413159..., the argument at which log1p crosses 5; e - 1 = 1.718281...
\* log1p(n/d) > hi for an integer hi in 0..5 (larger hi are never exceeded here)
Log1pGt(x, hi) ==
    LET t == CASE hi = 0 -> Num(0)
               [] hi = 1 -> Frac(1718282, 1000000)
               [] hi = 2 -> Frac(6389056, 1000000)
               [] hi = 3 -> Frac(19085537, 1000000)
               [] hi = 4 -> Frac(53598150, 1000000)
               [] OTHER  -> Frac(147413159, 1000000)
    IN  RLt(t, [x EXCEPT !.k = "num"])

\* cell < integer bound, cell > integer bound, for the numeric kinds (an ulp cell is
\* below 2^-50 in size and a per_ulp cell above 2^50)
CellLtInt(x, b) ==
    CASE x.k = "num"   -> RLt(x, Num(b))
      [] x.k = "ulp"   -> b > 0 \/ (b = 0 /\ x.n < 0)
      [] x.k = "per_ulp" -> x.n < 0
      [] x.k = "surd"  -> IF b <= 0 THEN x.n < 0 /\ RLt(Num(b * b), SqOf(x))
                          ELSE x.n < 0 \/ RLt(SqOf(x), Num(b * b))
      [] x.k = "log1p" -> b > 0 /\ ~Log1pGt(x, b)
      [] OTHER         -> FALSE

CellGtInt(x, b) ==
    CASE x.k = "num"   -> RLt(Num(b), x)
      [] x.k = "ulp"   -> b < 0 \/ (b = 0 /\ x.n > 0)
      [] x.k = "per_ulp" -> x.n > 0
      [] x.k = "surd"  -> IF b >= 0 THEN x.n > 0 /\ RLt(Num(b * b), SqOf(x))
                          ELSE x.n > 0 \/ RLt(SqOf(x), Num(b * b))
      [] x.k = "log1p" -> b < 0 \/ Log1pGt(x, b)
      [] OTHER         -> FALSE

-----------------------------------------------------------------------------
(* Binary64 rounding, in integers *)

\* the doublings that bring the quotient c / n into [1, 2); none when c >= n
lead_shift(c, n) ==
    CHOOSE s \in 0..30 : c * (2 ^ s) >= n /\ (s = 0 \/ c * (2 ^ (s - 1)) < n)

\* long division of r / n in base 2^13: the remainder after 39 bits
quotient_rem39(r, n) == (((((r * 8192) % n) * 8192) % n) * 8192) % n

\* round to nearest, a tie to the even neighbour: the 53rd bit goes up
rounds_up(low, r, d) == 2 * r > d \/ (2 * r = d /\ low % 2 = 1)

\* what rounding the integer p to 53 bits adds to it, its last k >= 1 bits dropped,
\* a tie to the even neighbour (p is given modulo 2^(k + 1))
product_rounding(p, k) ==
    IF p % (2 ^ k) < 2 ^ (k - 1) \/ (p % (2 ^ k) = 2 ^ (k - 1) /\ (p \div (2 ^ k)) % 2 = 0)
    THEN 0 - (p % (2 ^ k))
    ELSE 2 ^ k - (p % (2 ^ k))

\* the denominator that brings p / q >= 1 into [1, 2)
scaled_den(p, q) ==
    q * (2 ^ (CHOOSE s \in 0..30 : p < q * (2 ^ (s + 1)) /\ (s = 0 \/ p >= q * (2 ^ s))))

\* the double nearest to P / Q (in [1, 2)) has the mantissa M, 53 bits: its last eight
\* bits, and Q times what the rounding left out (P / Q * 2^52 - M)
mantissa_low(P, Q) ==
    LET r39 == quotient_rem39(P - Q, Q)
        low == ((r39 * 8192) \div Q) % 256
    IN  IF rounds_up(low, (r39 * 8192) % Q, Q) THEN (low + 1) % 256 ELSE low

mantissa_rest(P, Q) ==
    LET r39 == quotient_rem39(P - Q, Q)
        low == ((r39 * 8192) \div Q) % 256
        r == (r39 * 8192) % Q
    IN  IF rounds_up(low, r, Q) THEN r - Q ELSE r

\* the sum k * M + e is at least 2^(53 + g)
sum_reaches(P, Q, k, e, g) ==
    k * P > (2 ^ (g + 1)) * Q
        \/ (k * P = (2 ^ (g + 1)) * Q /\ e * Q - k * mantissa_rest(P, Q) >= 0)

\* the bits the sum k * M + e has beyond 53
carry_bits(P, Q, k, e) ==
    CHOOSE g \in 0..8 :
        ~sum_reaches(P, Q, k, e, g) /\ (g = 0 \/ sum_reaches(P, Q, k, e, g - 1))

\* the double s + v for s = (k - 1) * M + e and v = M, as k * M + e': the new e'
sum_step(P, Q, k, e) ==
    IF carry_bits(P, Q, k, e) = 0 THEN e
    ELSE e + product_rounding(4096 + k * mantissa_low(P, Q) + e, carry_bits(P, Q, k, e))

RECURSIVE sum_error(_, _, _)
\* v + v + ... + v (k terms, added in order, each sum rounded) minus k * v, in units
\* of the last place of v
sum_error(P, Q, k) == IF k <= 1 THEN 0 ELSE sum_step(P, Q, k, sum_error(P, Q, k - 1))

\* e / n rounded to an integer, a tie to the side that makes low + result even
div_round(e, n, low) ==
    IF 2 * (e % n) < n THEN e \div n
    ELSE IF 2 * (e % n) > n THEN (e \div n) + 1
    ELSE IF (low + (e \div n)) % 2 = 0 THEN e \div n
    ELSE (e \div n) + 1

\* (v + ... + v) / n minus v for the double v nearest to p / q > 0, n terms, in units
\* of the last place of v: 0 for n <= 2 and for a v with few bits, else often not
\* (for 0.1 and n = 3 the sum is 0.30000000000000004 and the quotient
\* 0.10000000000000002, one unit above 0.1)
mean_error(p, q, n) ==
    LET P == p * (2 ^ lead_shift(p, q))
        Q == scaled_den(p * (2 ^ lead_shift(p, q)), q)
    IN  div_round(sum_error(P, Q, n), n, mantissa_low(P, Q))

-----------------------------------------------------------------------------
(* Sequences *)

RECURSIVE SeqFilterNum(_)
SeqFilterNum(s) ==
    IF s = <<>> THEN <<>>
    ELSE IF IsNum(Head(s)) THEN <<Head(s)>> \o SeqFilterNum(Tail(s))
    ELSE SeqFilterNum(Tail(s))

RECURSIVE SeqSum(_)
SeqSum(s) == IF s = <<>> THEN Num(0) ELSE RAdd(Head(s), SeqSum(Tail(s)))

\* the numbers of s in ascending order: the value at position i goes to its rank
SortNum(s) ==
    LET n == Len(s)
        rank(i) == 1 + Cardinality({j \in 1..n : RLt(s[j], s[i]) \/ (s[j] = s[i] /\ j < i)})
    IN  [r \in 1..n |-> s[CHOOSE i \in 1..n : rank(i) = r]]

Range(s) == {s[i] : i \in DOMAIN s}

Contains(s, x) == \E i \in DOMAIN s : s[i] = x

RECURSIVE SeqSelect(_, _)
\* the names of s that are in the set S, in s's order
SeqSelect(s, S) ==
    IF s = <<>> THEN <<>>
    ELSE IF Head(s) \in S THEN <<Head(s)>> \o SeqSelect(Tail(s), S)
    ELSE SeqSelect(Tail(s), S)

-----------------------------------------------------------------------------
(* pandas Series reductions (skipna=True) *)

\* every value of x is the same number
IsConstant(x) == x # <<>> /\ \A i \in DOMAIN x : IsNum(x[i]) /\ x[i] = x[1]

\* the double sum(x) / len(x) minus v for n values v, in units of the last place of v.
\* The values are added in order, as numpy adds fewer than 8 numbers (the absent
\* ones count as 0.0 and change no partial sum)
constant_mean_error(v, n) ==
    IF v.n = 0 THEN 0 ELSE Sgn(v.n) * mean_error(Abs(v.n), v.d, n)

\* Series.mean(): the mean of the non-absent values, NaN when there is none. The mean
\* of equal values v is the double sum / count, which is v or lies next to it
mean(vals) ==
    LET x == SeqFilterNum(vals)
    IN  IF x = <<>> THEN NaN
        ELSE IF IsConstant(x)
        THEN [x[1] EXCEPT !.s = IF constant_mean_error(x[1], Len(x)) < 0 THEN "-"
                                ELSE IF constant_mean_error(x[1], Len(x)) > 0 THEN "+"
                                ELSE ""]
        ELSE RDiv(SeqSum(x), Num(Len(x)))

\* Series.std(ddof=0): population standard deviation of the non-absent values,
\* sqrt(sum((mean - x) ** 2) / count). For equal values v every deviation is mean - v:
\* the squares, their sum and the quotient are exact, and the result is |mean - v|,
\* which is 0.0 only when the computed mean is v
std0(vals) ==
    LET x == SeqFilterNum(vals)
        m == mean(vals)
        dev == [i \in DOMAIN x |-> RMul(RSub(x[i], m), RSub(x[i], m))]
    IN  IF x = <<>> THEN NaN
        ELSE IF IsConstant(x)
        THEN (IF constant_mean_error(x[1], Len(x)) = 0 THEN Num(0) ELSE Ulp(1, 1))
        ELSE MkSurd(1, RDiv(SeqSum(dev), Num(Len(x))))

\* Series.min() / Series.max()
min(vals) ==
    LET x == SortNum(SeqFilterNum(vals)) IN IF x = <<>> THEN NaN ELSE x[1]

max(vals) ==
    LET x == SortNum(SeqFilterNum(vals)) IN IF x = <<>> THEN NaN ELSE x[Len(x)]

\* Series.quantile(q), q = qn/qd, linear interpolation between order statistics
quantile(vals, qn, qd) ==
    LET x == SortNum(SeqFilterNum(vals))
        n == Len(x)
        pos == (n - 1) * qn            \* position * qd
        lo == pos \div qd
        fr == Frac(pos % qd, qd)
    IN  IF n = 0 THEN NaN
        ELSE IF lo + 1 >= n THEN x[n]
        ELSE RAdd(x[lo + 1], RMul(fr, RSub(x[lo + 2], x[lo + 1])))

\* Series.median()
median(vals) == quantile(vals, 1, 2)

\* Python's `x or 1.0`: 1.0 when x is falsy (zero); NaN is truthy
OrOne(x) == IF IsNum(x) /\ x.n = 0 THEN Num(1) ELSE x

-----------------------------------------------------------------------------
(* DataFrames and the heap *)

Column(dtype, vals) == [dtype |-> dtype, vals |-> vals]

is_numeric_dtype(col) == col.dtype \in {"float64", "int64", "bool", "boolean"}

HasCol(t, c) == Contains(t.names, c)

NRows(t) == IF t.names = <<>> THEN 0 ELSE Len(t.cols[t.names[1]].vals)

\* df[c] = column: assignment to an existing label replaces, to a new one appends
SetCol(t, c, col) ==
    IF HasCol(t, c) THEN [t EXCEPT !.cols[c] = col]
    ELSE [names |-> Append(t.names, c),
          cols |-> [x \in Range(t.names) \cup {c} |-> IF x = c THEN col ELSE t.cols[x]]]

\* the caller's table is object 1 of the heap
CallerRef == 1

\* a local variable bound to a fresh object holding t
NewObj(h, t) == [heap |-> Append(h, t), ref |-> Len(h) + 1]

\* no copy: the local is another name for the object it was given
DfAlias(h, r) == [heap |-> h, ref |-> r]

\* DataFrame.copy() (deep): a fresh object with the same content
DfCopy(h, r) == NewObj(h, h[r])

\* in-place `obj[c] = column` on the object a local refers to
HeapSetCol(h, r, c, col) == [h EXCEPT ![r] = SetCol(h[r], c, col)]

-----------------------------------------------------------------------------
(* 04_feature_normalization.py: NormalizationSpec, FeatureNormalizer *)

\* NormalizationSpec(method, columns, clip, clip_range); columns = <<"*">> stands
\* for columns=None (no label of the model is "*")
NONE == <<"*">>

NormalizationSpec(method, columns, clip, lo, hi) ==
    [method |-> method, columns |-> columns, clip |-> clip, clip_range |-> <<lo, hi>>]

\* power_transformer_: None, or a PowerTransformer that is fitted or not
NoTransformer == [state |-> "none", cols |-> <<>>, data |-> <<>>]

\* FeatureNormalizer.__init__
FeatureNormalizer(spec) ==
    [spec |-> spec, params_ |-> <<>>, power_transformer_ |-> NoTransformer]

\* FeatureNormalizer._get_columns
_get_columns(spec, t) ==
    IF spec.columns # NONE
    THEN SeqSelect(spec.columns, Range(t.names))
    ELSE SeqSelect(t.names, {c \in Range(t.names) : is_numeric_dtype(t.cols[c])})

\* the statistics fit stores for one column
fit_stats(method, vals) ==
    CASE method = "standard" -> [mean |-> mean(vals), std |-> OrOne(std0(vals))]
      [] method = "minmax"   -> [min |-> min(vals), max |-> max(vals)]
      [] method = "robust"   ->
            [median |-> median(vals),
             iqr |-> OrOne(RSub(quantile(vals, 3, 4), quantile(vals, 1, 4)))]

\* the sum of two stored statistics, field by field
AddStats(p, q) == [f \in DOMAIN p |-> RAdd(p[f], q[f])]

RECURSIVE fit_loop_accumulate(_, _, _, _)
\* a fit that adds to the statistics a column already has instead of replacing them
fit_loop_accumulate(method, params, t, cols) ==
    IF cols = <<>> THEN params
    ELSE LET c == Head(cols)
             new == fit_stats(method, t.cols[c].vals)
             p == [x \in DOMAIN params \cup {c} |->
                      IF x # c THEN params[x]
                      ELSE IF c \in DOMAIN params THEN AddStats(params[c], new) ELSE new]
         IN  fit_loop_accumulate(method, p, t, Tail(cols))

RECURSIVE fit_loop(_, _, _, _)
\* for c in cols: self.params_[c] = {...}
fit_loop(method, params, t, cols) ==
    IF cols = <<>> THEN params
    ELSE LET c == Head(cols)
             p == [x \in DOMAIN params \cup {c} |->
                      IF x = c THEN fit_stats(method, t.cols[c].vals) ELSE params[x]]
         IN  fit_loop(method, p, t, Tail(cols))

\* PowerTransformer(method="yeo-johnson").fit(df[cols]): the fitted model is kept as
\* the data it was fitted on; it refuses an input with no column or no row
pt_fit(t, cols) ==
    IF cols = <<>> \/ NRows(t) = 0
    THEN [err |-> "ValueError",
          pt |-> [state |-> "unfitted", cols |-> <<>>, data |-> <<>>]]
    ELSE [err |-> "",
          pt |-> [state |-> "fitted", cols |-> cols,
                  data |-> [c \in Range(cols) |-> t.cols[c].vals]]]

\* FeatureNormalizer.fit(df), df = h[r]: the instance after the call, and the heap
fit(me, h, r) ==
    LET t == h[r]
        cols == _get_columns(me.spec, t)
        m == me.spec.method
    IN  IF m \in {"standard", "minmax", "robust"}
        THEN [heap |-> h, err |-> "",
              self |-> [me EXCEPT !.params_ = fit_loop(m, me.params_, t, cols)]]
        ELSE IF m = "yeo_johnson"
        THEN [heap |-> h, err |-> pt_fit(t, cols).err,
              self |-> [me EXCEPT !.power_transformer_ = pt_fit(t, cols).pt]]
        ELSE [heap |-> h, err |-> "", self |-> me]

\* one value scaled with the stored statistics p of its column
scale(method, p, x) ==
    CASE method = "standard" -> DivStd(FloatSub(x, p.mean), p.std)
      [] method = "minmax"   -> RDiv(RSub(x, p.min), OrOne(RSub(p.max, p.min)))
      [] method = "robust"   -> RDiv(RSub(x, p.median), p.iqr)

\* np.log1p(x) without the clip: the logarithm of a number below -1 is NaN
log1p_no_clip(x) ==
    IF ~IsNum(x) \/ x.n < 0 THEN NaN
    ELSE IF x.n = 0 THEN Num(0)
    ELSE [x EXCEPT !.k = "log1p"]

\* np.log1p(x.clip(lower=0))
log1p_clip0(x) ==
    IF ~IsNum(x) THEN NaN
    ELSE IF x.n <= 0 THEN Num(0)
    ELSE [x EXCEPT !.k = "log1p"]

FloatCol(vals) == Column("float64", vals)

RECURSIVE transform_loop(_, _, _, _, _)
\* for c in cols: df[c] = ... ; a column without stored statistics is a KeyError
transform_loop(method, params, h, w, cols) ==
    IF cols = <<>> THEN [heap |-> h, err |-> ""]
    ELSE LET c == Head(cols)
             v == h[w].cols[c].vals
         IN  IF method = "log"
             THEN transform_loop(method, params,
                      HeapSetCol(h, w, c, FloatCol([i \in DOMAIN v |-> log1p_clip0(v[i])])),
                      w, Tail(cols))
             ELSE IF c \notin DOMAIN params THEN [heap |-> h, err |-> "KeyError"]
             ELSE transform_loop(method, params,
                      HeapSetCol(h, w, c,
                          FloatCol([i \in DOMAIN v |-> scale(method, params[c], v[i])])),
                      w, Tail(cols))

\* the fitted power transform applied to one value (opaque)
yj_value(x) == IF IsNum(x) THEN [x EXCEPT !.k = "yj"] ELSE NaN

\* a value clipped to [lo, hi], lo <= hi
clip_cell(x, lo, hi) ==
    IF x.k = "yj" THEN [x EXCEPT !.s = "clip"]
    ELSE IF CellLtInt(x, lo) THEN Num(lo)
    ELSE IF CellGtInt(x, hi) THEN Num(hi)
    ELSE x

\* DataFrame.clip(lower=lo, upper=hi) on one value: two scalar bounds given in reverse
\* are swapped
clip_value(x, lo, hi) == IF hi < lo THEN clip_cell(x, hi, lo) ELSE clip_cell(x, lo, hi)

\* a cell-wise operation f: the power transform, or a clip to [lo, hi]
cell_op(f, x) == IF f.op = "yj" THEN yj_value(x) ELSE clip_value(x, f.lo, f.hi)

RECURSIVE set_cols(_, _, _, _)
\* df[cols] = f(df[cols]) cell by cell, in place
set_cols(h, w, cols, f) ==
    IF cols = <<>> THEN h
    ELSE LET c == Head(cols)
             v == h[w].cols[c].vals
         IN  set_cols(HeapSetCol(h, w, c, FloatCol([i \in DOMAIN v |-> cell_op(f, v[i])])),
                      w, Tail(cols), f)

\* self.power_transformer_.transform(df[cols])
pt_transform(pt, h, w, cols) ==
    IF pt.state = "none" THEN [heap |-> h, err |-> "AttributeError"]
    ELSE IF pt.state = "unfitted" THEN [heap |-> h, err |-> "NotFittedError"]
    ELSE IF cols # pt.cols \/ NRows(h[w]) = 0 THEN [heap |-> h, err |-> "ValueError"]
    ELSE [heap |-> set_cols(h, w, cols, [op |-> "yj", lo |-> 0, hi |-> 0]), err |-> ""]

\* FeatureNormalizer.transform(df), df = h[r]
transform_stored(me, h, r) ==
    LET c0 == DfCopy(h, r)
        w == c0.ref
        cols == _get_columns(me.spec, c0.heap[w])
        m == me.spec.method
        s1 == IF m \in {"standard", "minmax", "robust", "log"}
              THEN transform_loop(m, me.params_, c0.heap, w, cols)
              ELSE IF m = "yeo_johnson"
              THEN pt_transform(me.power_transformer_, c0.heap, w, cols)
              ELSE [heap |-> c0.heap, err |-> ""]
        clipf == [op |-> "clip", lo |-> me.spec.clip_range[1], hi |-> me.spec.clip_range[2]]
    IN  IF s1.err # "" THEN [heap |-> s1.heap, err |-> s1.err, ref |-> 0]
        ELSE IF me.spec.clip
        THEN [heap |-> set_cols(s1.heap, w, cols, clipf), err |-> "", ref |-> w]
        ELSE [heap |-> s1.heap, err |-> "", ref |-> w]

\* a transform that takes its statistics from the table it is given (a refit)
transform_refit(me, h, r) == transform_stored(fit(me, h, r).self, h, r)

\* FeatureNormalizer.transform
transform(me, h, r) == transform_stored(me, h, r)

-----------------------------------------------------------------------------
(* Inputs: the tables and configurations the calls are made with *)

\* the values a generated numeric column is filled with
CellVals == {NaN, Num(0), Num(3)}

\* the numeric data a table is generated from: every sequence of at most MaxRows values
DataSeqs == UNION {[1..n -> CellVals] : n \in 0..MaxRows}

Reverse(s) == [i \in DOMAIN s |-> s[Len(s) + 1 - i]]

\* the raw text values a generated text column cycles through
RawTokens == <<"(3,500)", "N/A", "12.5%", " Yes ", "$1,200", "0", "abc", "2026-01-02">>

\* the generated column of each label: a = data (float64), b = the reverse of data plus
\* one (float64), s = "x", "y", "x", ... (object), t = distinct instants in descending
\* order (datetime64), c = 1.0, 2.0, ... with no absent value (float64),
\* "Raw $" = the raw tokens in turn (object)
GenCol(c, data) ==
    CASE c = "a" -> Column("float64", data)
      [] c = "b" -> Column("float64", [i \in DOMAIN data |-> RAdd(Reverse(data)[i], Num(1))])
      [] c = "s" -> Column("object",
                        [i \in DOMAIN data |-> IF i % 2 = 1 THEN Str("x") ELSE Str("y")])
      [] c = "t" -> Column("datetime64[ns]", [i \in DOMAIN data |-> Num(Len(data) + 1 - i)])
      [] c = "c" -> Column("float64", [i \in DOMAIN data |-> Num(i)])
      [] c = "Raw $" ->
            Column("object",
                   [i \in DOMAIN data |-> Str(RawTokens[((i - 1) % Len(RawTokens)) + 1])])

\* a table with the generated columns `names`
MkTable(data, names) == [names |-> names, cols |-> [c \in Range(names) |-> GenCol(c, data)]]

\* a second dataset with other values: 2x + 1, in reverse order
OtherData(data) ==
    [i \in DOMAIN data |-> RAdd(RMul(Num(2), Reverse(data)[i]), Num(1))]

ColSets == {<<"a", "b", "s">>, <<"a", "s">>, <<"s">>}

NormMethods == {"standard", "minmax", "robust", "log", "yeo_johnson", "zscore"}

StatMethods == {"standard", "minmax", "robust"}

KnownMethods == {"standard", "minmax", "robust", "log", "yeo_johnson"}

NormSpecs ==
    {NormalizationSpec(m, cs, cl[1], cl[2], cl[3]) :
        m \in NormMethods, cs \in {NONE, <<"a", "b">>},
        cl \in {<<FALSE, -5, 5>>, <<TRUE, -1, 1>>}}

NoTable == [names |-> <<>>, cols |-> <<>>]

NoCall == [engine |-> "none", which |-> "A", arg |-> <<>>]

NoRet == [kind |-> "none", err |-> "", table |-> NoTable, report |-> <<>>]

Raised(e) == [kind |-> "raise", err |-> e, table |-> NoTable, report |-> <<>>]

Returned(t, report) == [kind |-> "table", err |-> "", table |-> t, report |-> report]

NoHist == [fitted |-> FALSE, fit |-> NoTable, again |-> FALSE, overlap |-> FALSE]

\* the table a call is given: the caller's A or B
Arg(which) == IF which = "A" THEN df ELSE df2

-----------------------------------------------------------------------------
(* The FeatureNormalizer of one caller: fit, transform, fit_transform calls *)

InitNorm ==
    /\ \E data \in DataSeqs, ca \in ColSets, cb \in ColSets \ {<<"s">>} :
          /\ df = MkTable(data, ca)
          /\ df2 = MkTable(OtherData(data), cb)
    /\ \E sp \in NormSpecs : self = FeatureNormalizer(sp)
    /\ call = NoCall
    /\ ret = NoRet
    /\ hist = NoHist
    /\ pcF = 0 /\ pcT = 0 /\ loc = <<>>

\* the caller's tables after a call that was given `which` and left the heap h
Callers(which, h) ==
    /\ df' = IF which = "A" THEN h[CallerRef] ELSE df
    /\ df2' = IF which = "B" THEN h[CallerRef] ELSE df2

\* history: the table the last fit was given, and whether the fit before it (with
\* nothing but transform calls in between) was given the same table
FitHist(which) ==
    [fitted |-> TRUE, fit |-> Arg(which), again |-> hist.fitted /\ hist.fit = Arg(which),
     overlap |-> FALSE]

NormFit(which) ==
    LET r == fit(self, <<Arg(which)>>, CallerRef)
    IN  /\ self' = r.self
        /\ Callers(which, r.heap)
        /\ call' = [engine |-> "fit", which |-> which, arg |-> <<>>]
        /\ ret' = IF r.err = "" THEN [NoRet EXCEPT !.kind = "self"] ELSE Raised(r.err)
        /\ hist' = FitHist(which)
        /\ UNCHANGED <<pcF, pcT, loc>>

NormTransform(which) ==
    LET r == transform(self, <<Arg(which)>>, CallerRef)
    IN  /\ Callers(which, r.heap)
        /\ call' = [engine |-> "transform", which |-> which, arg |-> <<>>]
        /\ ret' = IF r.err = "" THEN Returned(r.heap[r.ref], <<>>) ELSE Raised(r.err)
        /\ UNCHANGED <<self, hist, pcF, pcT, loc>>

\* FeatureNormalizer.fit_transform: self.fit(df).transform(df)
NormFitTransform(which) ==
    LET f == fit(self, <<Arg(which)>>, CallerRef)
        r == transform(f.self, f.heap, CallerRef)
    IN  /\ self' = f.self
        /\ call' = [engine |-> "fit_transform", which |-> which, arg |-> <<>>]
        /\ hist' = FitHist(which)
        /\ IF f.err # ""
           THEN Callers(which, f.heap) /\ ret' = Raised(f.err)
           ELSE /\ Callers(which, r.heap)
                /\ ret' = IF r.err = "" THEN Returned(r.heap[r.ref], <<>>) ELSE Raised(r.err)
        /\ UNCHANGED <<pcF, pcT, loc>>

NextNorm ==
    \E which \in {"A", "B"} :
        \/ NormFit(which)
        \/ NormTransform(which)
        \/ NormFitTransform(which)

SpecNorm == InitNorm /\ [][NextNorm]_vars

-----------------------------------------------------------------------------
(* A FeatureNormalizer with method log, on tables with negative values *)

\* the values of the tables given to the log transform: absent, -3, 0 and 3
LogCellVals == {NaN, Num(-3), Num(0), Num(3)}

LogSeqs == UNION {[1..n -> LogCellVals] : n \in 0..MaxRows}

InitLog ==
    /\ \E data \in LogSeqs, ca \in ColSets :
          /\ df = MkTable(data, ca)
          /\ df2 = MkTable(OtherData(data), <<"a", "b", "s">>)
    /\ \E sp \in {x \in NormSpecs : x.method = "log"} : self = FeatureNormalizer(sp)
    /\ call = NoCall
    /\ ret = NoRet
    /\ hist = NoHist
    /\ pcF = 0 /\ pcT = 0 /\ loc = <<>>

SpecLog == InitLog /\ [][NextNorm]_vars

-----------------------------------------------------------------------------
(* A FeatureNormalizer on columns of equal values that are not binary fractions *)

\* column a: 0.1 in every present row (three times, twice, three times with an absent
\* row in between), or 0.3 and 0.1; column b is then 1.1 (or 1.1 and 1.3)
SpreadSeqs ==
    {<<Frac(1, 10), Frac(1, 10), Frac(1, 10)>>,
     <<Frac(1, 10), Frac(1, 10)>>,
     <<Frac(1, 10), NaN, Frac(1, 10), Frac(1, 10)>>,
     <<Frac(3, 10), Frac(1, 10)>>}

InitSpread ==
    /\ \E da \in SpreadSeqs, db \in SpreadSeqs :
          /\ df = MkTable(da, <<"a", "b", "s">>)
          /\ df2 = MkTable(db, <<"a", "b", "s">>)
    /\ \E sp \in {x \in NormSpecs : x.method \in StatMethods} : self = FeatureNormalizer(sp)
    /\ call = NoCall
    /\ ret = NoRet
    /\ hist = NoHist
    /\ pcF = 0 /\ pcT = 0 /\ loc = <<>>

SpecSpread == InitSpread /\ [][NextNorm]_vars

-----------------------------------------------------------------------------
(* One FeatureNormalizer shared by two threads with no lock: a re-fit on table B  *)
(* and a transform, after a first fit on table A. Each access to the shared dict  *)
(* self.params_ is one step: fit writes self.params_[c] once per column,          *)
(* transform reads self.params_[c][key] twice per column.                         *)

\* the two statistics transform reads per column, in the order it reads them
StatKeys(method) ==
    CASE method = "standard" -> <<"mean", "std">>
      [] method = "minmax"   -> <<"min", "max">>
      [] method = "robust"   -> <<"median", "iqr">>

\* a read of the wrong entry: the statistics of the first column, whatever c is
race_read_first(params, cols, c, key) == params[cols[1]][key]

\* self.params_[c][key]
race_read(params, cols, c, key) == params[c][key]

\* the instance after the first fit, on table A
FittedOn(sp, t) == fit(FeatureNormalizer(sp), <<t>>, CallerRef).self

InitRace ==
    /\ \E data \in DataSeqs, cs \in {<<"a", "b", "s">>, <<"b", "a">>} :
          /\ NRows(MkTable(data, cs)) > 0
          /\ df = MkTable(data, cs)
          /\ df2 = MkTable(OtherData(data), cs)
    /\ \E m \in StatMethods, cols \in {NONE, <<"a", "b">>} :
          self = FittedOn(NormalizationSpec(m, cols, FALSE, -5, 5), df)
    /\ \E which \in {"A", "B"} : call = [engine |-> "race", which |-> which, arg |-> <<>>]
    /\ ret = NoRet
    /\ hist = [fitted |-> TRUE, fit |-> df, again |-> FALSE, overlap |-> FALSE]
    /\ pcF = 0
    /\ pcT = 0
    /\ loc = [work |-> Arg(call.which), p1 |-> NaN]

\* transform has made pcT reads; it is between two of its reads when 0 < pcT < all
ReadsOf(t) == 2 * Len(_get_columns(self.spec, t))

TransformMidway == 0 < pcT /\ pcT < ReadsOf(Arg(call.which))

\* fit has made pcF writes; it is between two of its writes when 0 < pcF < all
FitMidway == 0 < pcF /\ pcF < Len(_get_columns(self.spec, df2))

\* fit thread: self.params_[c] = {...} for the next column of table B
RaceFitStep ==
    LET cols == _get_columns(self.spec, df2)
    IN  /\ pcF < Len(cols)
        /\ self' = [self EXCEPT !.params_ =
                        fit_loop(self.spec.method, self.params_, df2, <<cols[pcF + 1]>>)]
        /\ pcF' = pcF + 1
        /\ hist' = [hist EXCEPT !.overlap = @ \/ TransformMidway]
        /\ UNCHANGED <<df, df2, call, ret, pcT, loc>>

\* transform thread: the first read of a column, self.params_[c][key1]
RaceReadFirst ==
    LET cols == _get_columns(self.spec, loc.work)
        c == cols[pcT \div 2 + 1]
    IN  /\ pcT < 2 * Len(cols) /\ pcT % 2 = 0
        /\ loc' = [loc EXCEPT !.p1 = race_read(self.params_, cols, c, StatKeys(self.spec.method)[1])]
        /\ pcT' = pcT + 1
        /\ hist' = [hist EXCEPT !.overlap = @ \/ FitMidway]
        /\ UNCHANGED <<df, df2, self, call, ret, pcF>>

\* transform thread: the second read, self.params_[c][key2], then df[c] = ... on its copy;
\* after the last column it returns the copy
RaceReadSecondAndAssign ==
    LET cols == _get_columns(self.spec, loc.work)
        c == cols[pcT \div 2 + 1]
        m == self.spec.method
        k == StatKeys(m)
        p == [x \in {k[1], k[2]} |->
                IF x = k[1] THEN loc.p1 ELSE race_read(self.params_, cols, c, k[2])]
        v == loc.work.cols[c].vals
        out == SetCol(loc.work, c, FloatCol([i \in DOMAIN v |-> scale(m, p, v[i])]))
    IN  /\ pcT < 2 * Len(cols) /\ pcT % 2 = 1
        /\ loc' = [loc EXCEPT !.work = out]
        /\ pcT' = pcT + 1
        /\ ret' = IF pcT + 1 = 2 * Len(cols) THEN Returned(out, <<>>) ELSE ret
        /\ hist' = [hist EXCEPT !.overlap = @ \/ FitMidway]
        /\ UNCHANGED <<df, df2, self, call, pcF>>

NextRace == RaceFitStep \/ RaceReadFirst \/ RaceReadSecondAndAssign

SpecRace == InitRace /\ [][NextRace]_vars

\* what the transform returns with the parameters of the first fit, and of the re-fit
OutOld ==
    LET r == transform(FittedOn(self.spec, df), <<Arg(call.which)>>, CallerRef)
    IN  r.heap[r.ref]

OutNew ==
    LET r == transform(fit(FittedOn(self.spec, df), <<df2>>, CallerRef).self,
                       <<Arg(call.which)>>, CallerRef)
    IN  r.heap[r.ref]

RaceDone == call.engine = "race" /\ ret.kind = "table"

\* C6: when a transform races with a re-fit on the same instance, every column it
\* returns is computed from parameters that the first fit or the re-fit stored for
\* that column (possibly the first statistic from one and the second from the other),
\* and the returned table differs from both serial outcomes (all old parameters, all
\* new parameters) only if the two calls overlapped: a write of the re-fit fell between
\* two reads of the transform, or a read of the transform between two writes of the
\* re-fit; the torn outcome itself is the witness.
C6_TornOnlyByRace ==
    RaceDone =>
        /\ \A c \in Range(_get_columns(self.spec, df)) :
              \E o1 \in BOOLEAN, o2 \in BOOLEAN :
                 LET m == self.spec.method
                     k == StatKeys(m)
                     po == FittedOn(self.spec, df).params_[c]
                     pn == fit(FittedOn(self.spec, df), <<df2>>, CallerRef).self.params_[c]
                     p == [x \in {k[1], k[2]} |->
                             IF x = k[1] THEN (IF o1 THEN po[x] ELSE pn[x])
                             ELSE (IF o2 THEN po[x] ELSE pn[x])]
                     v == Arg(call.which).cols[c].vals
                 IN  ret.table.cols[c].vals = [i \in DOMAIN v |-> scale(m, p, v[i])]
        /\ (ret.table # OutOld /\ ret.table # OutNew) => hist.overlap

\* C6 witness: the transform returned column a scaled with the first fit's parameters
\* and column b with the re-fit's, a table that neither fit alone gives.
C6_Witness ==
    /\ RaceDone
    /\ ret.table # OutOld /\ ret.table # OutNew
    /\ HasCol(ret.table, "a") /\ HasCol(ret.table, "b")
    /\ ret.table.names = <<"a", "b", "s">>
    /\ ret.table.cols["a"] = OutOld.cols["a"] /\ ret.table.cols["a"] # OutNew.cols["a"]
    /\ ret.table.cols["b"] = OutNew.cols["b"] /\ ret.table.cols["b"] # OutOld.cols["b"]

-----------------------------------------------------------------------------
(* 01_missing_values.py *)

\* Python's None where a column label is expected
None == "<None>"

\* the order of the text values the model uses ("A" < "B" < "x" < "y")
StrRank(t) == CASE t = "A" -> 1 [] t = "B" -> 2 [] t = "x" -> 3 [] t = "y" -> 4 [] OTHER -> 5

\* x <= y for two present cells of one kind
CellLe(x, y) == IF x.k = "str" /\ y.k = "str" THEN StrRank(x.s) <= StrRank(y.s) ELSE RLe(x, y)

RECURSIVE SeqDropNa(_)
\* Series.dropna()
SeqDropNa(v) ==
    IF v = <<>> THEN <<>>
    ELSE IF IsNa(Head(v)) THEN SeqDropNa(Tail(v))
    ELSE <<Head(v)>> \o SeqDropNa(Tail(v))

\* Series.isna().sum()
NaCount(v) == Cardinality({i \in DOMAIN v : IsNa(v[i])})

\* a fill that removes the absent cells instead of filling them
fillna_dropna(v, value) == SeqDropNa(v)

\* Series.fillna(value)
fillna(v, value) == [i \in DOMAIN v |-> IF IsNa(v[i]) THEN value ELSE v[i]]

\* Series.mode(dropna=True).iloc[0]: the smallest of the most frequent present values;
\* NaN when there is no present value (len(modes) = 0)
mode0(v) ==
    LET x == SeqDropNa(v)
        cnt(a) == Cardinality({i \in DOMAIN x : x[i] = a})
        top == {a \in Range(x) : \A b \in Range(x) : cnt(b) <= cnt(a)}
    IN  IF x = <<>> THEN NaN ELSE CHOOSE a \in top : \A b \in top : CellLe(a, b)

RECURSIVE SelectRowsOf(_, _)
\* the values of v at the positions idx, in idx's order
SelectRowsOf(v, idx) ==
    IF idx = <<>> THEN <<>> ELSE <<v[Head(idx)]>> \o SelectRowsOf(v, Tail(idx))

\* the table with the rows idx of t, in idx's order (a new object)
TakeRows(t, idx) ==
    [names |-> t.names,
     cols |-> [c \in Range(t.names) |-> [t.cols[c] EXCEPT !.vals = SelectRowsOf(@, idx)]]]

RECURSIVE IdxWhere(_, _, _)
\* the positions i..n at which P holds, ascending (P a function position -> BOOLEAN)
IdxWhere(P, i, n) ==
    IF i > n THEN <<>>
    ELSE IF P[i] THEN <<i>> \o IdxWhere(P, i + 1, n)
    ELSE IdxWhere(P, i + 1, n)

\* _validate_columns: None means every column; an unknown label is a ValueError
_validate_columns(t, columns) ==
    IF columns = NONE THEN [err |-> "", cols |-> t.names]
    ELSE IF \E i \in DOMAIN columns : ~HasCol(t, columns[i])
    THEN [err |-> "ValueError", cols |-> <<>>]
    ELSE [err |-> "", cols |-> columns]

RECURSIVE descending_orders(_, _, _)
\* the orders of the rows numbered in S in which the keys descend: any row with the
\* largest key first, then the others
descending_orders(rows, key, S) ==
    IF S = {} THEN {<<>>}
    ELSE UNION {{<<i>> \o rest : rest \in descending_orders(rows, key, S \ {i})} :
                   i \in {i \in S : \A j \in S : ~RLt(rows[i][key], rows[j][key])}}

\* rows.sort_values(by=key, ascending=False): every order the call can return the
\* rows in. The keys descend; the default kind='quicksort' is not a stable sort, so
\* the order of rows with equal keys is not determined
sort_values_desc(rows, key) ==
    {[r \in DOMAIN rows |-> rows[p[r]]] : p \in descending_orders(rows, key, DOMAIN rows)}

\* the bits the product 100 * mantissa has beyond 53: seven when the mantissa is at
\* least 2^59 / 100, i.e. the quotient scaled into [1, 2) is above 1.28 (or equal to
\* it and rounded up), else six; exact for every n below 2^18
product_extra_bits(c, n, shift, up) ==
    IF 25 * c * (2 ^ shift) > 32 * n \/ (25 * c * (2 ^ shift) = 32 * n /\ up) THEN 7 ELSE 6

\* the sign of the double (c / n * 100.0) minus the exact 100 * c / n. The mantissa of
\* c / n is the leading bit and 52 bits of the rest: low is its last eight bits and r
\* the remainder before rounding; rounded up, the mantissa is one more and the
\* remainder r - n
percent_error_of(c, n, shift, low, r, up) ==
    Sgn(product_rounding(100 * (IF up THEN (low + 1) % 256 ELSE low),
                         product_extra_bits(c, n, shift, up)) * n
        - 100 * (IF up THEN r - n ELSE r))

\* -1, 0 or 1: the double cnt / n * 100.0 lies below, at or above 100 * cnt / n
percent_error(c, n) ==
    IF c = 0 THEN 0
    ELSE LET shift == lead_shift(c, n)
             r39 == quotient_rem39(c * (2 ^ shift) - n, n)
             low == ((r39 * 8192) \div n) % 256
             r == (r39 * 8192) % n
         IN  percent_error_of(c, n, shift, low, r, rounds_up(low, r, n))

\* s.values / n * 100.0 for 0 <= c <= n: the double, written as the rational it rounds
\* and the side of it the double lies on ("-" below, "+" above, "" when it is exact)
percent(c, n) ==
    [Frac(100 * c, n) EXCEPT !.s = IF percent_error(c, n) < 0 THEN "-"
                                   ELSE IF percent_error(c, n) > 0 THEN "+" ELSE ""]

\* x <= y for two doubles
FloatLe(x, y) ==
    RLt(x, y) \/ (RLe(x, y) /\ FloatSide(x) <= FloatSide(y))

\* the frame missing_summary builds, one row per column in the order of cols:
\* missing_cnt, missing_pct, non_missing_cnt, dtype
summary_rows(t, cols, n) ==
    [i \in DOMAIN cols |->
        [column |-> cols[i],
         missing_cnt |-> NaCount(t.cols[cols[i]].vals),
         missing_pct |-> IF n > 0 THEN percent(NaCount(t.cols[cols[i]].vals), n)
                         ELSE Num(0),
         non_missing_cnt |-> n - NaCount(t.cols[cols[i]].vals),
         dtype |-> t.cols[cols[i]].dtype]]

\* missing_summary(df, columns=cols): the rows sorted by missing_pct, descending: every
\* frame the call can return
missing_summary(t, cols) == sort_values_desc(summary_rows(t, cols, NRows(t)), "missing_pct")

\* df.dropna(subset=cols): the rows with no absent value in cols
dropna_rows(t, cols) ==
    LET n == NRows(t)
        keep == [i \in 1..n |-> \A j \in DOMAIN cols : ~IsNa(t.cols[cols[j]].vals[i])]
    IN  TakeRows(t, IdxWhere(keep, 1, n))

\* df.drop(columns=to_drop)
drop_columns(t, to_drop) ==
    LET names == SeqSelect(t.names, Range(t.names) \ to_drop)
    IN  [names |-> names, cols |-> [c \in Range(names) |-> t.cols[c]]]

\* the dtype of a column after fillna(value)
FilledDtype(col, value) ==
    IF value.k = "str" /\ NaCount(col.vals) > 0 THEN "object" ELSE col.dtype

\* the value each strategy of the per-column fills puts in the absent cells of a column
\* (NaN: the column is left as it is)
fill_value(strategy, col, constant_value) ==
    CASE strategy = "constant" -> constant_value
      [] strategy = "mean"     -> IF is_numeric_dtype(col) THEN mean(col.vals) ELSE NaN
      [] strategy = "median"   -> IF is_numeric_dtype(col) THEN median(col.vals) ELSE NaN
      [] strategy = "mode"     -> mode0(col.vals)

RECURSIVE fill_loop(_, _, _, _, _)
\* for c in cols: df[c] = df[c].fillna(...), in place on the working copy
fill_loop(strategy, constant_value, h, w, cols) ==
    IF cols = <<>> THEN h
    ELSE LET c == Head(cols)
             col == h[w].cols[c]
             val == fill_value(strategy, col, constant_value)
             new == Column(FilledDtype(col, val), fillna(col.vals, val))
         IN  fill_loop(strategy, constant_value,
                       IF IsNa(val) /\ strategy # "constant" THEN h ELSE HeapSetCol(h, w, c, new),
                       w, Tail(cols))

\* a transform that gives every row the statistic of the whole column
whole_column_transform(t, groupby_col, c, stat) ==
    [i \in DOMAIN t.cols[c].vals |->
        IF stat = "median" THEN median(t.cols[c].vals) ELSE mode0(t.cols[c].vals)]

\* df.groupby(groupby_col)[c].transform(stat): for each row the statistic of its
\* group; rows whose key is absent belong to no group and get NaN
group_transform(t, groupby_col, c, stat) ==
    LET key == t.cols[groupby_col].vals
        v == t.cols[c].vals
        grp(i) == SelectRowsOf(v, IdxWhere([j \in DOMAIN key |-> key[j] = key[i]], 1, Len(key)))
    IN  [i \in DOMAIN v |->
            IF IsNa(key[i]) THEN NaN
            ELSE IF stat = "median" THEN median(grp(i)) ELSE mode0(grp(i))]

\* an assignment of the other Series as a whole, present cells included
take_other(v, other) == other

\* Series.fillna(other Series): absent cells take the value at the same position
fillna_series(v, other) == [i \in DOMAIN v |-> IF IsNa(v[i]) THEN other[i] ELSE v[i]]

\* `groupby_col is None` / `groupby_col not in df.columns`: the error of the check
\* that precedes the loop of the group strategies ("" when it passes)
group_check_none_only(groupby_col, t) ==
    IF groupby_col = None THEN "ValueError" ELSE ""

group_check(groupby_col, t) ==
    IF groupby_col = None THEN "ValueError"
    ELSE IF ~HasCol(t, groupby_col) THEN "ValueError"
    ELSE ""

RECURSIVE group_loop(_, _, _, _, _)
\* for c in cols: group_median skips non-numeric columns; both fill in place;
\* df.groupby(label) with a label that is not a column is a KeyError
group_loop(strategy, groupby_col, h, w, cols) ==
    IF cols = <<>> THEN [heap |-> h, err |-> ""]
    ELSE LET c == Head(cols)
             col == h[w].cols[c]
             stat == IF strategy = "group_median" THEN "median" ELSE "mode"
             new == [col EXCEPT !.vals =
                        fillna_series(@, group_transform(h[w], groupby_col, c, stat))]
         IN  IF strategy = "group_median" /\ ~is_numeric_dtype(col)
             THEN group_loop(strategy, groupby_col, h, w, Tail(cols))
             ELSE IF ~HasCol(h[w], groupby_col) THEN [heap |-> h, err |-> "KeyError"]
             ELSE group_loop(strategy, groupby_col, HeapSetCol(h, w, c, new), w, Tail(cols))

\* the rows 1..n ordered by key: ascending, absent keys last (na_position="last"),
\* rows with equal keys in their original order
SortIdx(key, n) ==
    LET before(j, i) ==
            \/ RLt(key[j], key[i])
            \/ (~IsNa(key[j]) /\ IsNa(key[i]))
            \/ (key[j] = key[i] /\ j < i)
        rank(i) == 1 + Cardinality({j \in 1..n : before(j, i)})
    IN  [r \in 1..n |-> CHOOSE i \in 1..n : rank(i) = r]

\* df.sort_values(by=time_col).reset_index(drop=True): a new object
sort_values(t, by) == TakeRows(t, SortIdx(t.cols[by].vals, NRows(t)))

\* Series.ffill(): an absent cell takes the last present value before it
ffill(v) ==
    [i \in DOMAIN v |->
        LET before == {j \in 1..(i - 1) : ~IsNa(v[j])}
        IN  IF ~IsNa(v[i]) \/ before = {} THEN v[i]
            ELSE v[CHOOSE j \in before : \A x \in before : x <= j]]

\* Series.bfill(): an absent cell takes the first present value after it
bfill(v) == Reverse(ffill(Reverse(v)))

\* Series.interpolate(method="linear", limit_direction="both"): absent cells between
\* two present ones lie on the line through them (equally spaced rows); leading and
\* trailing absent cells take the nearest present value
interpolate_linear(v) ==
    [i \in DOMAIN v |->
        LET before == {j \in 1..(i - 1) : ~IsNa(v[j])}
            after == {j \in (i + 1)..Len(v) : ~IsNa(v[j])}
            p == CHOOSE j \in before : \A x \in before : x <= j
            q == CHOOSE j \in after : \A x \in after : j <= x
        IN  IF ~IsNa(v[i]) THEN v[i]
            ELSE IF before = {} /\ after = {} THEN NaN
            ELSE IF before = {} THEN v[q]
            ELSE IF after = {} THEN v[p]
            ELSE RAdd(v[p], RMul(Frac(i - p, q - p), RSub(v[q], v[p])))]

RECURSIVE time_fill(_, _, _, _)
\* df[cols] = df[cols].ffill() / .bfill() / .interpolate(...): column by column, in place
time_fill(strategy, h, w, cols) ==
    IF cols = <<>> THEN h
    ELSE LET c == Head(cols)
             v == h[w].cols[c].vals
             out == CASE strategy = "ffill" -> ffill(v)
                      [] strategy = "bfill" -> bfill(v)
                      [] strategy = "interpolate_linear" -> interpolate_linear(v)
         IN  time_fill(strategy, HeapSetCol(h, w, c, [h[w].cols[c] EXCEPT !.vals = out]),
                       w, Tail(cols))

\* the arguments of a handle_missing call
MissingArgs(columns, strategy, constant_value, drop_threshold_pct, groupby_col, time_col, sort_time) ==
    [columns |-> columns, strategy |-> strategy, constant_value |-> constant_value,
     drop_threshold_pct |-> drop_threshold_pct, groupby_col |-> groupby_col,
     time_col |-> time_col, sort_time |-> sort_time]

\* the end of handle_missing, reached when no strategy branch returned: it returns the
\* working copy instead of raising
unknown_strategy_returns(h, w) == [heap |-> h, err |-> "", ref |-> w]

\* raise ValueError(f"Unknown strategy: {strategy}")
unknown_strategy(h, w) == [heap |-> h, err |-> "ValueError", ref |-> w]

\* handle_missing(df, columns=, strategy=, ...): the heap after the call, the error
\* raised ("" if none) and the object `df` names when the call ends (the returned
\* table, or the working copy at the raise)
handle_missing(h, r, a) ==
    LET c0 == DfCopy(h, r)
        w == c0.ref
        h0 == c0.heap
        t == h0[w]
        v == _validate_columns(t, a.columns)
        cols == v.cols
        st == a.strategy
        Fail(e) == [heap |-> h0, err |-> e, ref |-> w]
        New(x) == LET n == NewObj(h0, x) IN [heap |-> n.heap, err |-> "", ref |-> n.ref]
    IN  IF v.err # "" THEN Fail(v.err)
        ELSE IF st = "drop_rows" THEN New(dropna_rows(t, cols))
        ELSE IF st = "drop_cols"
        THEN LET summ == CHOOSE m \in missing_summary(t, cols) : TRUE
                 to_drop == {summ[i].column : i \in
                               {j \in DOMAIN summ :
                                   FloatLe(Num(a.drop_threshold_pct), summ[j].missing_pct)}}
             IN  New(drop_columns(t, to_drop))
        ELSE IF st \in {"constant", "mean", "median", "mode"}
        THEN [heap |-> fill_loop(st, a.constant_value, h0, w, cols), err |-> "", ref |-> w]
        ELSE IF st \in {"group_median", "group_mode"}
        THEN IF group_check(a.groupby_col, t) # "" THEN Fail(group_check(a.groupby_col, t))
             ELSE LET g == group_loop(st, a.groupby_col, h0, w, cols)
                  IN  [heap |-> g.heap, err |-> g.err, ref |-> w]
        ELSE IF st \in {"ffill", "bfill", "interpolate_linear"}
        THEN IF a.time_col # None /\ ~HasCol(t, a.time_col) THEN Fail("ValueError")
             ELSE LET s0 == IF a.time_col # None /\ a.sort_time
                            THEN NewObj(h0, sort_values(t, a.time_col))
                            ELSE c0
                      fc == IF st = "interpolate_linear"
                            THEN SeqSelect(cols, {c \in Range(cols) :
                                                    is_numeric_dtype(t.cols[c])})
                            ELSE cols
                  IN  [heap |-> time_fill(st, s0.heap, s0.ref, fc), err |-> "",
                       ref |-> s0.ref]
        ELSE unknown_strategy(h0, w)

RECURSIVE flag_loop(_, _, _, _)
\* for c in cols: df[f"{c}{suffix}"] = df[c].isna().astype(int)
flag_loop(h, w, cols, suffix) ==
    IF cols = <<>> THEN h
    ELSE LET c == Head(cols)
             v == h[w].cols[c].vals
             flags == Column("int64", [i \in DOMAIN v |-> IF IsNa(v[i]) THEN Num(1) ELSE Num(0)])
         IN  flag_loop(HeapSetCol(h, w, c \o suffix, flags), w, Tail(cols), suffix)

\* add_missing_flags(df, columns, suffix=)
add_missing_flags(h, r, columns, suffix) ==
    LET c0 == DfCopy(h, r)
        v == _validate_columns(c0.heap[c0.ref], columns)
    IN  IF v.err # "" THEN [heap |-> c0.heap, err |-> v.err, ref |-> c0.ref]
        ELSE [heap |-> flag_loop(c0.heap, c0.ref, v.cols, suffix), err |-> "", ref |-> c0.ref]

-----------------------------------------------------------------------------
(* 02_outlier_handling.py *)

\* OutlierPolicy(method, action, iqr_k, mad_z, cap_lower_q, cap_upper_q, min_non_null);
\* iqr_k and mad_z are cells, the two quantiles are pairs <<numerator, denominator>>
OutlierPolicy(method, action, iqr_k, mad_z, cap_lower_q, cap_upper_q, min_non_null) ==
    [method |-> method, action |-> action, iqr_k |-> iqr_k, mad_z |-> mad_z,
     cap_lower_q |-> cap_lower_q, cap_upper_q |-> cap_upper_q,
     min_non_null |-> min_non_null]

\* select_numeric_columns(df, include): the numeric columns, of include when given
\* (labels of include that are not columns are dropped)
select_numeric_columns(t, include) ==
    LET cols == IF include = NONE THEN t.names
                ELSE SeqSelect(include, Range(t.names))
    IN  SeqSelect(cols, {c \in Range(cols) : is_numeric_dtype(t.cols[c])})

\* the rule of iqr_bounds on the two quartiles: <<q1, q3>> when the IQR is absent or
\* zero, else <<q1 - k * iqr, q3 + k * iqr>>
iqr_rule(q1, q3, k) ==
    IF IsNa(RSub(q3, q1)) \/ RSub(q3, q1) = Num(0) THEN <<q1, q3>>
    ELSE <<RSub(q1, RMul(k, RSub(q3, q1))), RAdd(q3, RMul(k, RSub(q3, q1)))>>

\* iqr_bounds(s, k): <<lower, upper>>
iqr_bounds(vals, k) == iqr_rule(quantile(vals, 1, 4), quantile(vals, 3, 4), k)

\* a mask that also marks the values on the bounds
outside_or_on(vals, b) == [i \in DOMAIN vals |-> RLe(vals[i], b[1]) \/ RLe(b[2], vals[i])]

\* (s < lo) | (s > hi), b = <<lo, hi>>: comparisons with an absent value are False
outside(vals, b) == [i \in DOMAIN vals |-> RLt(vals[i], b[1]) \/ RLt(b[2], vals[i])]

\* detect_outliers_iqr(s, k): the mask of the values outside the IQR bounds of the
\* present values; all False when there is none
detect_outliers_iqr(vals, k) ==
    IF NaCount(vals) = Len(vals) THEN [i \in DOMAIN vals |-> FALSE]
    ELSE outside(vals, iqr_bounds(SeqDropNa(vals), k))

\* |x| for a cell
RAbs(x) == IF IsNum(x) THEN Frac(Abs(x.n), x.d) ELSE NaN

\* the deviations |x - med|
abs_dev(vals, med) == [i \in DOMAIN vals |-> RAbs(RSub(vals[i], med))]

\* z = 0.6745 * (x - med) / mad, all zeros when mad is 0 or NaN
zscores(vals, med, mad) ==
    IF mad = Num(0) \/ IsNa(mad) THEN [i \in DOMAIN vals |-> Num(0)]
    ELSE [i \in DOMAIN vals |-> RDiv(RMul(Frac(6745, 10000), RSub(vals[i], med)), mad)]

\* the z-scores given the median: mad = nanmedian(|x - med|)
zscores_about(vals, med) == zscores(vals, med, median(abs_dev(vals, med)))

\* robust_zscore_mad(s)
robust_zscore_mad(vals) == zscores_about(vals, median(vals))

\* a mask that also marks the scores equal to the threshold
abs_ge(z, z_th) == [i \in DOMAIN z |-> RLe(z_th, RAbs(z[i]))]

\* z.abs() > z_th
abs_gt(z, z_th) == [i \in DOMAIN z |-> RLt(z_th, RAbs(z[i]))]

\* detect_outliers_mad(s, z_th)
detect_outliers_mad(vals, z_th) == abs_gt(robust_zscore_mad(vals), z_th)

\* the values below lo raised to lo and those above hi lowered to hi, lo <= hi
clip_between(vals, lo, hi) ==
    [i \in DOMAIN vals |->
        IF RLt(vals[i], lo) THEN lo ELSE IF RLt(hi, vals[i]) THEN hi ELSE vals[i]]

\* a clip at the lower bound only
clip_lower_only(vals, lo, hi) ==
    [i \in DOMAIN vals |-> IF RLt(vals[i], lo) THEN lo ELSE vals[i]]

\* Series.clip(lower=lo, upper=hi): two scalar bounds given in reverse are swapped
clip_series(vals, lo, hi) ==
    IF RLt(hi, lo) THEN clip_between(vals, hi, lo) ELSE clip_between(vals, lo, hi)

\* the two quantiles of the present values x: <<x.quantile(lower_q), x.quantile(upper_q)>>
quantile_pair(x, lower_q, upper_q) ==
    <<quantile(x, lower_q[1], lower_q[2]), quantile(x, upper_q[1], upper_q[2])>>

\* s.clip(lower=lo, upper=hi), b = <<lo, hi>>
clip_pair(vals, b) == clip_series(vals, b[1], b[2])

\* cap_by_percentile(s, lower_q, upper_q)
cap_by_percentile(vals, lower_q, upper_q) ==
    IF NaCount(vals) = Len(vals) THEN vals
    ELSE clip_pair(vals, quantile_pair(SeqDropNa(vals), lower_q, upper_q))

RECURSIVE float_error(_, _, _, _)
\* the sign of float(n / d) - n / d for the binary64 quotient, by long division: r is
\* the remainder after k significant bits, `last` the last of them; the 53rd bit is
\* rounded to nearest, a tie to the even neighbour
float_error(r, d, k, last) ==
    IF r = 0 THEN 0
    ELSE IF k >= 53
    THEN IF 2 * r < d THEN -1
         ELSE IF 2 * r > d THEN 1
         ELSE IF last = 0 THEN -1 ELSE 1
    ELSE IF k > 0 \/ (2 * r) \div d = 1
    THEN float_error((2 * r) % d, d, k + 1, (2 * r) \div d)
    ELSE float_error((2 * r) % d, d, k, last)

RECURSIVE decimals(_, _, _, _)
\* k more decimal digits of a quotient: <<digits so far, remainder>> for divisor d
decimals(q, r, d, k) ==
    IF k = 0 THEN <<q, r>>
    ELSE decimals(q * 10 + (r * 10) \div d, (r * 10) % d, d, k - 1)

\* the millionths round() gives, qr = <<floor(10^6 * n / d), remainder>>: the nearest;
\* at a decimal tie the side the float of n / d lies on, and the even neighbour when
\* that float is exact
round_half(n, d, qr) ==
    IF 2 * qr[2] < d THEN qr[1]
    ELSE IF 2 * qr[2] > d THEN qr[1] + 1
    ELSE IF float_error(n % d, d, BitLen(n \div d), (n \div d) % 2) < 0 THEN qr[1]
    ELSE IF float_error(n % d, d, BitLen(n \div d), (n \div d) % 2) > 0 THEN qr[1] + 1
    ELSE IF qr[1] % 2 = 0 THEN qr[1] ELSE qr[1] + 1

\* round(x, 6) for the float x = n / d >= 0
Round6(x) ==
    IF ~IsNum(x) THEN NaN
    ELSE Frac(round_half(x.n, x.d, decimals(x.n \div x.d, x.n % x.d, x.d, 6)), 1000000)

\* mask.sum()
MaskSum(mask) == Cardinality({i \in DOMAIN mask : mask[i]})

\* one row of the report; notes holds the values the note text is formatted from
ReportRow(column, method, action, non_null, outliers, outlier_rate, notes) ==
    [column |-> column, method |-> method, action |-> action, non_null |-> non_null,
     outliers |-> outliers, outlier_rate |-> outlier_rate, notes |-> notes]

\* the mask and the values of the note, method "iqr", b = iqr_bounds(s.dropna(), k)
detect_iqr(vals, k, b) ==
    [mask |-> detect_outliers_iqr(vals, k), notes |-> <<Str("iqr_k"), k, b[1], b[2]>>]

\* method "pct", b = the two quantiles of the present values
detect_pct(vals, lower_q, upper_q, b) ==
    [mask |-> outside(vals, b),
     notes |-> <<Str("cap_q"), Frac(lower_q[1], lower_q[2]), Frac(upper_q[1], upper_q[2]),
                 b[1], b[2]>>]

\* the mask and the note of a supported detection method
detect(policy, vals) ==
    CASE policy.method = "iqr" ->
            detect_iqr(vals, policy.iqr_k, iqr_bounds(SeqDropNa(vals), policy.iqr_k))
      [] policy.method = "mad" ->
            [mask |-> detect_outliers_mad(vals, policy.mad_z),
             notes |-> <<Str("mad_z"), policy.mad_z>>]
      [] policy.method = "pct" ->
            detect_pct(vals, policy.cap_lower_q, policy.cap_upper_q,
                       quantile_pair(SeqDropNa(vals), policy.cap_lower_q, policy.cap_upper_q))

\* the method and action names apply_outlier_policy has a branch for
SupportedMethods == {"iqr", "mad", "pct"}

SupportedActions == {"flag", "cap", "drop"}

\* the row of a processed column: outliers = mask.sum(), the rate over non_null
processed_row(policy, col, non_null, d) ==
    ReportRow(col, policy.method, policy.action, non_null, MaskSum(d.mask),
              Round6(IF non_null # 0 THEN Frac(MaskSum(d.mask), non_null) ELSE Num(0)),
              d.notes)

\* the action on a column whose mask is d.mask: flag adds a column, cap replaces the
\* column, drop marks rows; any other action is a ValueError
apply_action(policy, flag_suffix, st, w, col, non_null, d) ==
    CASE policy.action = "flag" ->
            [st EXCEPT !.heap = HeapSetCol(@, w, col \o flag_suffix,
                                    Column("bool", [i \in DOMAIN d.mask |-> Bool(d.mask[i])])),
                       !.rows = Append(@, processed_row(policy, col, non_null, d))]
      [] policy.action = "cap" ->
            [st EXCEPT !.heap = HeapSetCol(@, w, col,
                                    [@[w].cols[col] EXCEPT !.vals =
                                        cap_by_percentile(@, policy.cap_lower_q,
                                                          policy.cap_upper_q)]),
                       !.rows = Append(@, processed_row(policy, col, non_null, d))]
      [] policy.action = "drop" ->
            [st EXCEPT !.mask_total = [i \in DOMAIN @ |-> @[i] \/ d.mask[i]],
                       !.rows = Append(@, processed_row(policy, col, non_null, d))]
      [] OTHER -> [st EXCEPT !.err = "ValueError"]

\* a loop body without the min_non_null safeguard: every column is processed
outlier_step_no_skip(policy, flag_suffix, st, w, col, non_null) ==
    IF policy.method \notin SupportedMethods THEN [st EXCEPT !.err = "ValueError"]
    ELSE apply_action(policy, flag_suffix, st, w, col, non_null,
                      detect(policy, st.heap[w].cols[col].vals))

\* the body of the loop for one column with non_null present values: skipped when
\* below min_non_null; else the method is looked up, then the action
outlier_step(policy, flag_suffix, st, w, col, non_null) ==
    IF non_null < policy.min_non_null
    THEN [st EXCEPT !.rows = Append(@,
            ReportRow(col, policy.method, "skip (too few non-null)", non_null, 0, Num(0),
                      <<Str("min_non_null"), Num(policy.min_non_null)>>))]
    ELSE IF policy.method \notin SupportedMethods THEN [st EXCEPT !.err = "ValueError"]
    ELSE apply_action(policy, flag_suffix, st, w, col, non_null,
                      detect(policy, st.heap[w].cols[col].vals))

\* s.notna().sum()
NotNaCount(vals) == Len(vals) - NaCount(vals)

RECURSIVE outlier_loop(_, _, _, _, _)
\* for col in num_cols: ...; st = the heap, the report rows so far, outlier_mask_total
\* and the error raised ("" while none)
outlier_loop(policy, flag_suffix, st, w, cols) ==
    IF cols = <<>> \/ st.err # "" THEN st
    ELSE outlier_loop(policy, flag_suffix,
            outlier_step(policy, flag_suffix, st, w, Head(cols),
                         NotNaCount(st.heap[w].cols[Head(cols)].vals)),
            w, Tail(cols))

\* the sorted order of the action texts of the report
ActionRank(a) ==
    CASE a = "cap" -> 1 [] a = "drop" -> 2 [] a = "drop rows" -> 3 [] a = "flag" -> 4
      [] OTHER -> 5

\* a rate rounded to six decimals, in millionths
Millionths(x) == x.n * (1000000 \div x.d)

\* row x sorts strictly before row y: action ascending, then outlier_rate descending
\* with absent rates last
RowBefore(x, y) ==
    \/ ActionRank(x.action) < ActionRank(y.action)
    \/ /\ ActionRank(x.action) = ActionRank(y.action)
       /\ \/ /\ IsNum(x.outlier_rate) /\ IsNum(y.outlier_rate)
             /\ Millionths(y.outlier_rate) < Millionths(x.outlier_rate)
          \/ (IsNum(x.outlier_rate) /\ IsNa(y.outlier_rate))

\* the rows in sorted order, rows with equal keys in their order of creation
SortRows(rows) ==
    LET n == Len(rows)
        before(j, i) ==
            \/ RowBefore(rows[j], rows[i])
            \/ (~RowBefore(rows[i], rows[j]) /\ j < i)
        rank(i) == 1 + Cardinality({j \in 1..n : before(j, i)})
    IN  [r \in 1..n |-> rows[CHOOSE i \in 1..n : rank(i) = r]]

\* pd.DataFrame(rows).sort_values(by=["action", "outlier_rate"], ...) and the return:
\* with no row the frame has no column and the sort raises KeyError
sort_report(h, ref, rows) ==
    IF rows = <<>> THEN [heap |-> h, err |-> "KeyError", ref |-> ref, report |-> <<>>]
    ELSE [heap |-> h, err |-> "", ref |-> ref, report |-> SortRows(rows)]

\* the "__ROW_FILTER__" row: n rows before, `dropped` of them marked
filter_row(policy, n, dropped) ==
    ReportRow("__ROW_FILTER__", policy.method, "drop rows", n, dropped,
              Round6(IF n = 0 THEN NaN ELSE Frac(dropped, n)),
              <<Str("rows"), Num(n), Num(n - dropped)>>)

\* a row filter that keeps the marked rows and removes the others
keep_marked_rows(policy, st, w, n) ==
    sort_report(Append(st.heap,
                       TakeRows(st.heap[w],
                                IdxWhere([i \in 1..n |-> st.mask_total[i]], 1, n))),
                Len(st.heap) + 1,
                Append(st.rows, filter_row(policy, n, MaskSum(st.mask_total))))

\* cleaned = cleaned.loc[~outlier_mask_total].copy(): a new object, then the report
drop_rows(policy, st, w, n) ==
    sort_report(Append(st.heap,
                       TakeRows(st.heap[w],
                                IdxWhere([i \in 1..n |-> ~st.mask_total[i]], 1, n))),
                Len(st.heap) + 1,
                Append(st.rows, filter_row(policy, n, MaskSum(st.mask_total))))

\* what follows the loop: the raise of the loop, or the row filter and the report
after_loop(policy, st, w, n) ==
    IF st.err # "" THEN [heap |-> st.heap, err |-> st.err, ref |-> w, report |-> <<>>]
    ELSE IF policy.action = "drop" THEN drop_rows(policy, st, w, n)
    ELSE sort_report(st.heap, w, st.rows)

\* the loop over the numeric columns of the copy c0 = [heap, ref]
policy_on_copy(c0, columns, policy, flag_suffix) ==
    after_loop(policy,
               outlier_loop(policy, flag_suffix,
                            [heap |-> c0.heap, rows |-> <<>>,
                             mask_total |-> [i \in 1..NRows(c0.heap[c0.ref]) |-> FALSE],
                             err |-> ""],
                            c0.ref, select_numeric_columns(c0.heap[c0.ref], columns)),
               c0.ref, NRows(c0.heap[c0.ref]))

\* apply_outlier_policy(df, columns, policy, flag_suffix): the heap after the call, the
\* error raised ("" if none), the object `cleaned` names when the call ends, the report
apply_outlier_policy(h, r, columns, policy, flag_suffix) ==
    policy_on_copy(DfCopy(h, r), columns, policy, flag_suffix)

-----------------------------------------------------------------------------
(* 03_data_type_fixing.py: text is processed as a sequence of characters *)

\* the characters of the text values and labels of the model (a text of one
\* character is that character)
Chars(x) ==
    CASE x = "(3,500)"    -> <<"(", "3", ",", "5", "0", "0", ")">>
      [] x = "N/A"        -> <<"N", "/", "A">>
      [] x = "12.5%"      -> <<"1", "2", ".", "5", "%">>
      [] x = " Yes "      -> <<" ", "Y", "e", "s", " ">>
      [] x = "$1,200"     -> <<"$", "1", ",", "2", "0", "0">>
      [] x = "abc"        -> <<"a", "b", "c">>
      [] x = "2026-01-02" -> <<"2", "0", "2", "6", "-", "0", "1", "-", "0", "2">>
      [] x = "Raw $"      -> <<"R", "a", "w", " ", "$">>
      [] x = "TRUE"       -> <<"T", "R", "U", "E">>
      [] x = "On"         -> <<"O", "n">>
      [] x = "no"         -> <<"n", "o">>
      [] x = "False"      -> <<"F", "a", "l", "s", "e">>
      [] x = "off"        -> <<"o", "f", "f">>
      [] x = "maybe"      -> <<"m", "a", "y", "b", "e">>
      [] x = "raw"        -> <<"r", "a", "w">>
      [] x = "zz"         -> <<"z", "z">>
      [] x = ""           -> <<>>
      [] OTHER            -> <<x>>

RECURSIVE Join(_)
\* the text made of the characters cs
Join(cs) == IF cs = <<>> THEN "" ELSE Head(cs) \o Join(Tail(cs))

Digits == <<"0", "1", "2", "3", "4", "5", "6", "7", "8", "9">>

UpperCase ==
    <<"A", "B", "C", "D", "E", "F", "G", "H", "I", "J", "K", "L", "M", "N", "O", "P", "Q",
      "R", "S", "T", "U", "V", "W", "X", "Y", "Z">>

LowerCase ==
    <<"a", "b", "c", "d", "e", "f", "g", "h", "i", "j", "k", "l", "m", "n", "o", "p", "q",
      "r", "s", "t", "u", "v", "w", "x", "y", "z">>

\* the characters of the model in code-point order
CharOrder ==
    <<" ", "$", "%", "(", ")", "+", ",", "-", ".", "/">> \o Digits \o <<"<", ">">>
        \o UpperCase \o <<"_">> \o LowerCase

CharRank(c) == CHOOSE i \in DOMAIN CharOrder : CharOrder[i] = c

\* x < y for two texts given as characters (the order sort_values uses for labels)
LexLt(x, y) ==
    \E i \in 1..(Len(y)) :
        /\ \A j \in 1..(i - 1) : j <= Len(x) /\ x[j] = y[j]
        /\ (i > Len(x) \/ (i - 1 < Len(x) /\ CharRank(x[i]) < CharRank(y[i])))

IsDigit(c) == Contains(Digits, c)

DigitVal(c) == (CHOOSE i \in DOMAIN Digits : Digits[i] = c) - 1

AllDigits(cs) == \A i \in DOMAIN cs : IsDigit(cs[i])

RECURSIVE DigitsVal(_)
\* the number a sequence of digits writes (0 for no digit)
DigitsVal(cs) ==
    IF cs = <<>> THEN 0
    ELSE 10 * DigitsVal(SubSeq(cs, 1, Len(cs) - 1)) + DigitVal(cs[Len(cs)])

RECURSIVE Pow10(_)
Pow10(k) == IF k = 0 THEN 1 ELSE 10 * Pow10(k - 1)

RECURSIVE IntChars(_)
\* the decimal digits of n >= 0
IntChars(n) ==
    IF n < 10 THEN <<Digits[n + 1]>> ELSE IntChars(n \div 10) \o <<Digits[(n % 10) + 1]>>

\* the digits of n, padded with zeros on the left to at least k digits
PadChars(n, k) ==
    [i \in 1..(k - Len(IntChars(n))) |-> "0"] \o IntChars(n)

\* the number of decimals a rational with denominator d needs (d divides 10^6)
Decimals(d) == CHOOSE k \in 0..6 : Pow10(k) % d = 0 /\ \A j \in 0..(k - 1) : Pow10(j) % d # 0

\* str(float): "3.0", "-1.5", "0.125" (finite decimals only)
FloatChars(x) ==
    (IF x.n < 0 THEN <<"-">> ELSE <<>>)
        \o IntChars(Abs(x.n) \div x.d) \o <<".">>
        \o (IF x.d = 1 THEN <<"0">>
            ELSE PadChars(((Abs(x.n) % x.d) * Pow10(Decimals(x.d))) \div x.d, Decimals(x.d)))

\* the text of an instant: the i-th instant is day i of January 2026
DateChars(i) == <<"2", "0", "2", "6", "-", "0", "1", "-">> \o PadChars(i, 2)

\* str(pd.NA)
NAChars == <<"<", "N", "A", ">">>

\* s.astype("string") followed by str(x): the characters of a cell of a column of
\* the given dtype
CellChars(dtype, x) ==
    CASE x.k = "na"   -> NAChars
      [] x.k = "str"  -> Chars(x.s)
      [] x.k = "bool" -> IF x.n = 1 THEN <<"T", "r", "u", "e">> ELSE <<"F", "a", "l", "s", "e">>
      [] x.k = "num"  -> IF dtype = "datetime64[ns]" THEN DateChars(x.n) ELSE FloatChars(x)

IsSpace(c) == c \in {" ", "\t", "\n", "\r"}

\* the sub-sequence of cs between the first and the last position of the set keep
Between(cs, keep) ==
    IF keep = {} THEN <<>>
    ELSE SubSeq(cs, CHOOSE i \in keep : \A j \in keep : i <= j,
                    CHOOSE i \in keep : \A j \in keep : j <= i)

\* str.strip()
strip(cs) == Between(cs, {i \in DOMAIN cs : ~IsSpace(cs[i])})

LowerChar(c) ==
    IF Contains(UpperCase, c) THEN LowerCase[CHOOSE i \in DOMAIN UpperCase : UpperCase[i] = c]
    ELSE c

\* str.lower()
lower(cs) == [i \in DOMAIN cs |-> LowerChar(cs[i])]

RECURSIVE KeepChars(_, _)
\* the characters of cs that are in the set S, in order
KeepChars(cs, S) ==
    IF cs = <<>> THEN <<>>
    ELSE (IF Head(cs) \in S THEN <<Head(cs)>> ELSE <<>>) \o KeepChars(Tail(cs), S)

\* the texts _to_number takes for an absent value, after strip and lower
NumberNaTokens ==
    {<<"n", "a">>, <<"n", "/", "a">>, <<"n", "u", "l", "l">>, <<"n", "o", "n", "e">>,
     <<"n", "a", "n">>, <<"-">>}

\* _PARENS_NEG_RE = ^\((.*)\)$ matched on the stripped text: "(...)" becomes "-...";
\* "." matches no line feed, so a text with one inside is left as it is
unparen(x) ==
    IF /\ Len(x) >= 2 /\ x[1] = "(" /\ x[Len(x)] = ")"
       /\ \A i \in 2..(Len(x) - 1) : x[i] # "\n"
    THEN <<"-">> \o SubSeq(x, 2, Len(x) - 1)
    ELSE x

\* _CURRENCY_RE.sub("", x): the won, dollar, euro and pound signs, commas and blanks go
uncurrency(x) == KeepChars(x, Range(x) \ {"₩", "$", "€", "£", ",", " "})

\* x.endswith("%")
is_pct(x) == x # <<>> /\ x[Len(x)] = "%"

\* x[:-1] when x ends with "%"
unpercent(x) == IF is_pct(x) THEN SubSeq(x, 1, Len(x) - 1) ELSE x

\* re.sub(r"[^0-9.\-+eE]", "", x)
float_chars_only(x) == KeepChars(x, Range(Digits) \cup {".", "-", "+", "e", "E"})

\* a leading sign split off: [neg, rest]
split_sign(x) ==
    IF x # <<>> /\ x[1] \in {"+", "-"} THEN [neg |-> x[1] = "-", rest |-> Tail(x)]
    ELSE [neg |-> FALSE, rest |-> x]

\* x cut at the first position of the set at: <<before, after>>; <<x, none>> if at = {}
cut_at(x, at, none) ==
    IF at = {} THEN <<x, none>>
    ELSE <<SubSeq(x, 1, (CHOOSE i \in at : \A j \in at : i <= j) - 1),
           SubSeq(x, (CHOOSE i \in at : \A j \in at : i <= j) + 1, Len(x))>>

\* 10^e * n / d for a signed exponent
scale10(n, d, neg, e) == IF neg THEN Frac(n, d * Pow10(e)) ELSE Frac(n * Pow10(e), d)

\* the value of integer digits ip, fraction digits fp and exponent ex = [neg, rest];
\* NaN when this is not a number
float_parts(neg, ip, fp, ex) ==
    IF /\ AllDigits(ip) /\ AllDigits(fp) /\ Len(ip) + Len(fp) > 0
       /\ AllDigits(ex.rest) /\ ex.rest # <<>>
    THEN scale10((IF neg THEN -1 ELSE 1) * DigitsVal(ip \o fp), Pow10(Len(fp)),
                 ex.neg, DigitsVal(ex.rest))
    ELSE NaN

\* mantissa m = <<integer digits, fraction digits>> and exponent text
float_mant(neg, m, ex) == float_parts(neg, m[1], m[2], split_sign(ex))

\* me = <<mantissa, exponent text>>
float_exp(neg, me) ==
    float_mant(neg, cut_at(me[1], {i \in DOMAIN me[1] : me[1][i] = "."}, <<>>), me[2])

\* the unsigned part: cut at the first "e" or "E" (no exponent reads as exponent 0)
float_body(neg, body) ==
    float_exp(neg, cut_at(body, {i \in DOMAIN body : body[i] \in {"e", "E"}}, <<"0">>))

float_signed(sx) == float_body(sx.neg, sx.rest)

\* float(x) for a text of digits, ".", signs and "e"/"E"; NaN where float raises
float(x) == float_signed(split_sign(x))

\* val / 100.0 when the text ended with "%"
pct_value(pct, val) == IF pct THEN RDiv(val, Num(100)) ELSE val

\* the steps of _to_number after the parentheses and currency signs are handled
number_of(x) == pct_value(is_pct(x), float(float_chars_only(unpercent(x))))

\* _to_number(x) on the stripped text
to_number_stripped(x) ==
    IF x = <<>> \/ lower(x) \in NumberNaTokens THEN NaN
    ELSE number_of(uncurrency(unparen(x)))

\* _to_number(x)
_to_number(x) == to_number_stripped(strip(x))

\* Series.isna().mean(): NaN for an empty column
na_rate(vals) == IF Len(vals) = 0 THEN NaN ELSE Frac(NaCount(vals), Len(vals))

\* a converted column and its failure rate
Coerced(dtype, vals) == [col |-> Column(dtype, vals), fail_rate |-> na_rate(vals)]

\* coerce_numeric_series(s)
coerce_numeric_series(col) ==
    Coerced("float64",
            [i \in DOMAIN col.vals |-> _to_number(CellChars(col.dtype, col.vals[i]))])

\* pd.to_datetime(text, errors="coerce") for the dates of the model: an ISO date of
\* January 2026 is its day; a text that is no date is NaT
to_datetime(x) ==
    IF /\ Len(x) = 10
       /\ SubSeq(x, 1, 8) = <<"2", "0", "2", "6", "-", "0", "1", "-">>
       /\ AllDigits(SubSeq(x, 9, 10))
       /\ DigitsVal(SubSeq(x, 9, 10)) \in 1..31
    THEN Num(DigitsVal(SubSeq(x, 9, 10)))
    ELSE NaN

\* coerce_datetime_series(s, utc=, dayfirst=)
coerce_datetime_series(col, utc, dayfirst) ==
    Coerced(IF utc THEN "datetime64[ns, UTC]" ELSE "datetime64[ns]",
            [i \in DOMAIN col.vals |->
                IF IsNa(col.vals[i]) THEN NaN
                ELSE to_datetime(CellChars(col.dtype, col.vals[i]))])

_TRUE_SET ==
    {<<"t", "r", "u", "e">>, <<"t">>, <<"y", "e", "s">>, <<"y">>, <<"1">>, <<"o", "n">>}

_FALSE_SET ==
    {<<"f", "a", "l", "s", "e">>, <<"f">>, <<"n", "o">>, <<"n">>, <<"0">>, <<"o", "f", "f">>}

BoolNaTokens ==
    {<<"n", "a">>, <<"n", "/", "a">>, <<"n", "u", "l", "l">>, <<"n", "o", "n", "e">>,
     <<"n", "a", "n">>}

\* _to_bool on the stripped, lowered text
to_bool_lowered(x) ==
    IF x = <<>> \/ x \in BoolNaTokens THEN NaN
    ELSE IF x \in _TRUE_SET THEN Bool(TRUE)
    ELSE IF x \in _FALSE_SET THEN Bool(FALSE)
    ELSE NaN

\* _to_bool(x)
_to_bool(x) == to_bool_lowered(lower(strip(x)))

\* coerce_bool_series(s)
coerce_bool_series(col) ==
    Coerced("boolean",
            [i \in DOMAIN col.vals |-> _to_bool(CellChars(col.dtype, col.vals[i]))])

\* raw.str.strip().str.lower() (absent values stay absent)
normalized_text(col) ==
    [i \in DOMAIN col.vals |->
        IF IsNa(col.vals[i]) THEN NaN
        ELSE Str(Join(lower(strip(CellChars(col.dtype, col.vals[i])))))]

\* raw.where(~raw.isin(rare), other_label): values seen fewer than min_freq times
\* become other_label
merge_rare(vals, min_freq, other_label) ==
    [i \in DOMAIN vals |->
        IF ~IsNa(vals[i]) /\ Cardinality({j \in DOMAIN vals : vals[j] = vals[i]}) < min_freq
        THEN Str(other_label)
        ELSE vals[i]]

\* coerce_category_series(s, min_freq=)
coerce_category_series(col, min_freq) ==
    Column("category", merge_rare(normalized_text(col), min_freq, "Other"))

\* the characters that stay in a normalized label
LabelChars == Range(LowerCase) \cup Range(Digits) \cup {"_"}

RECURSIVE sub_runs(_, _, _)
\* re.sub of a class followed by "+": each run of positions that `hit` marks becomes
\* one "_" (from position i on)
sub_runs(cs, hit, i) ==
    IF i > Len(cs) THEN <<>>
    ELSE (IF ~hit[i] THEN <<cs[i]>>
          ELSE IF i > 1 /\ hit[i - 1] THEN <<>>
          ELSE <<"_">>) \o sub_runs(cs, hit, i + 1)

\* re.sub(r"\s+", "_", c)
spaces_to_underscore(cs) == sub_runs(cs, [i \in DOMAIN cs |-> IsSpace(cs[i])], 1)

\* re.sub(r"[^a-z0-9_]+", "_", c)
others_to_underscore(cs) == sub_runs(cs, [i \in DOMAIN cs |-> cs[i] \notin LabelChars], 1)

\* the two substitutions: each run of white space, then each run of characters
\* outside a-z0-9_, becomes one "_"
underscored(cs) == others_to_underscore(spaces_to_underscore(cs))

\* re.sub(r"_+", "_", c): the "_" that follow a "_" go
collapse(cs) ==
    KeepChars([i \in DOMAIN cs |-> IF i > 1 /\ cs[i] = "_" /\ cs[i - 1] = "_" THEN "" ELSE cs[i]],
              LabelChars)

\* str.strip("_")
strip_underscores(cs) == Between(cs, {i \in DOMAIN cs : cs[i] # "_"})

\* the normalized text of one label (lower=True, replace_spaces=True)
normalize_label(c) ==
    Join(strip_underscores(collapse(underscored(lower(strip(Chars(c)))))))

\* normalize_column_names(df): a copy whose labels are normalized
normalize_column_names(t) ==
    [names |-> [i \in DOMAIN t.names |-> normalize_label(t.names[i])],
     cols |-> [c \in {normalize_label(t.names[i]) : i \in DOMAIN t.names} |->
                t.cols[t.names[CHOOSE i \in DOMAIN t.names : normalize_label(t.names[i]) = c]]]]

\* DTypeFixSpec(...)
DTypeFixSpec(numeric_cols, datetime_cols, bool_cols, category_cols, dayfirst_for_datetime, utc_for_datetime, category_min_freq) ==
    [numeric_cols |-> numeric_cols, datetime_cols |-> datetime_cols,
     bool_cols |-> bool_cols, category_cols |-> category_cols,
     dayfirst_for_datetime |-> dayfirst_for_datetime,
     utc_for_datetime |-> utc_for_datetime, category_min_freq |-> category_min_freq]

\* _add_report: one row; fail_rate None is the absent value
DtypeRow(col, before, after, fail_rate, note) ==
    [column |-> col, before_dtype |-> before, after_dtype |-> after,
     parse_fail_rate |-> fail_rate, note |-> note]

\* the conversion of one kind on a column: [col, fail_rate, note]
coerce(kind, spec, col) ==
    CASE kind = "numeric" ->
            [c |-> coerce_numeric_series(col),
             note |-> "numeric coercion (currency/commas/parentheses/percent)"]
      [] kind = "datetime" ->
            [c |-> coerce_datetime_series(col, spec.utc_for_datetime,
                                          spec.dayfirst_for_datetime),
             note |-> "datetime coercion (errors->NaT)"]
      [] kind = "bool" ->
            [c |-> coerce_bool_series(col),
             note |-> "boolean coercion (y/n/yes/no/1/0/true/false)"]
      [] kind = "category" ->
            [c |-> [col |-> coerce_category_series(col, spec.category_min_freq),
                    fail_rate |-> NaN],
             note |-> "category coercion (min_freq=" \o Join(IntChars(spec.category_min_freq)) \o ")"]

\* work[col] = converted and the report row, given the conversion r
assign_converted(st, w, col, before, r) ==
    [heap |-> HeapSetCol(st.heap, w, col, r.c.col),
     rows |-> Append(st.rows, DtypeRow(col, before, r.c.col.dtype, r.c.fail_rate, r.note))]

\* a loop body that passes over a column that is not found without a report row
dtype_step_silent(kind, spec, st, w, col) ==
    IF ~HasCol(st.heap[w], col) THEN st
    ELSE assign_converted(st, w, col, st.heap[w].cols[col].dtype,
                          coerce(kind, spec, st.heap[w].cols[col]))

\* the body of each of the four loops of fix_dtypes
dtype_step(kind, spec, st, w, col) ==
    IF ~HasCol(st.heap[w], col)
    THEN [st EXCEPT !.rows = Append(@, DtypeRow(col, "-", "-", NaN, "SKIP: column not found"))]
    ELSE assign_converted(st, w, col, st.heap[w].cols[col].dtype,
                          coerce(kind, spec, st.heap[w].cols[col]))

RECURSIVE dtype_loop(_, _, _, _, _)
\* for col in spec.<kind>_cols: ...
dtype_loop(kind, spec, st, w, cols) ==
    IF cols = <<>> THEN st
    ELSE dtype_loop(kind, spec, dtype_step(kind, spec, st, w, Head(cols)), w, Tail(cols))

\* the four loops in the order of the code
dtype_loops(spec, st, w) ==
    dtype_loop("category", spec,
        dtype_loop("bool", spec,
            dtype_loop("datetime", spec,
                dtype_loop("numeric", spec, st, w, spec.numeric_cols),
                w, spec.datetime_cols),
            w, spec.bool_cols),
        w, spec.category_cols)

\* the rows ordered by their column label, equal labels in their order of creation
SortByColumn(rows) ==
    LET n == Len(rows)
        before(j, i) ==
            \/ LexLt(Chars(rows[j].column), Chars(rows[i].column))
            \/ (rows[j].column = rows[i].column /\ j < i)
        rank(i) == 1 + Cardinality({j \in 1..n : before(j, i)})
    IN  [r \in 1..n |-> rows[CHOOSE i \in 1..n : rank(i) = r]]

\* pd.DataFrame(rows).sort_values("column").reset_index(drop=True) and the return:
\* with no row the frame has no column and the sort raises KeyError
dtype_report(st, w) ==
    IF st.rows = <<>> THEN [heap |-> st.heap, err |-> "KeyError", ref |-> w, report |-> <<>>]
    ELSE [heap |-> st.heap, err |-> "", ref |-> w, report |-> SortByColumn(st.rows)]

\* the loops and the report on the working object c0 = [heap, ref]
fix_on_copy(c0, spec) ==
    dtype_report(dtype_loops(spec, [heap |-> c0.heap, rows |-> <<>>], c0.ref), c0.ref)

\* work = normalize_column_names(work): rebinds work to a new object
normalized_copy(c0) == NewObj(c0.heap, normalize_column_names(c0.heap[c0.ref]))

\* fix_dtypes(df, spec, normalize_cols=)
fix_dtypes(h, r, spec, normalize_cols) ==
    IF normalize_cols THEN fix_on_copy(normalized_copy(DfCopy(h, r)), spec)
    ELSE fix_on_copy(DfCopy(h, r), spec)

-----------------------------------------------------------------------------
(* Calls of handle_missing and add_missing_flags on the caller's tables *)

\* what a call raised, with the table its local `df` named at the raise
RaisedAt(e, t) == [kind |-> "raise", err |-> e, table |-> t, report |-> <<>>]

CleanColSets == {<<"a", "b", "s", "t">>, <<"a", "s">>}

ColumnChoices == {NONE, <<>>, <<"a">>, <<"a", "b">>, <<"s", "a">>, <<"a", "zz">>}

FillStrategies ==
    {"drop_rows", "drop_cols", "constant", "mean", "median", "mode", "group_median",
     "group_mode", "ffill", "bfill", "interpolate_linear"}

\* the handle_missing calls made: every strategy with the arguments it reads, and
\* strategy names that are not supported
MissingCalls ==
    UNION {
      {MissingArgs(c, st, Num(0), 60, None, None, TRUE) :
          st \in {"drop_rows", "mean", "median", "mode"}}
      \cup {MissingArgs(c, "drop_cols", Num(0), th, None, None, TRUE) : th \in {50, 60}}
      \cup {MissingArgs(c, "constant", cv, 60, None, None, TRUE) : cv \in {Num(0), Str("x")}}
      \cup {MissingArgs(c, st, Num(0), 60, g, None, TRUE) :
              st \in {"group_median", "group_mode"}, g \in {None, "s", "b"}}
      \cup {MissingArgs(c, st, Num(0), 60, None, tc, srt) :
              st \in {"ffill", "bfill", "interpolate_linear"}, tc \in {None, "t"},
              srt \in BOOLEAN}
      \cup {MissingArgs(c, st, Num(0), 60, g, tc, TRUE) :
              st \in {"bogus", "MEDIAN"}, g \in {None, "s"}, tc \in {None, "t"}}
      : c \in ColumnChoices}

\* longer columns: the values of the IQR example, and a column with absent values
ScenarioData ==
    {<<Num(1), Num(2), Num(3), Num(4), Num(5), Num(100)>>,
     <<Num(10), Num(20), NaN, Num(100), NaN>>}

InitClean ==
    /\ \E data \in DataSeqs \cup ScenarioData, cs \in CleanColSets :
          /\ df = MkTable(data, cs)
          /\ df2 = MkTable(OtherData(data), cs)
    /\ self = FeatureNormalizer(NormalizationSpec("standard", NONE, FALSE, -5, 5))
    /\ call = NoCall
    /\ ret = NoRet
    /\ hist = NoHist
    /\ pcF = 0 /\ pcT = 0 /\ loc = <<>>

\* the functions of 01_missing_values.py keep no state between calls and the caller's
\* tables are the same before every call, so a behaviour makes one call
HandleMissing(which, a) ==
    LET r == handle_missing(<<Arg(which)>>, CallerRef, a)
    IN  /\ call = NoCall
        /\ Callers(which, r.heap)
        /\ call' = [engine |-> "handle_missing", which |-> which, arg |-> a]
        /\ ret' = IF r.err = "" THEN Returned(r.heap[r.ref], <<>>)
                  ELSE RaisedAt(r.err, r.heap[r.ref])
        /\ UNCHANGED <<self, hist, pcF, pcT, loc>>

AddMissingFlags(which, columns) ==
    LET r == add_missing_flags(<<Arg(which)>>, CallerRef, columns, "_is_missing")
    IN  /\ call = NoCall
        /\ Callers(which, r.heap)
        /\ call' = [engine |-> "add_missing_flags", which |-> which,
                    arg |-> [columns |-> columns]]
        /\ ret' = IF r.err = "" THEN Returned(r.heap[r.ref], <<>>)
                  ELSE RaisedAt(r.err, r.heap[r.ref])
        /\ UNCHANGED <<self, hist, pcF, pcT, loc>>

NextMissing ==
    \E which \in {"A", "B"} :
        \/ \E a \in MissingCalls : HandleMissing(which, a)
        \/ \E c \in ColumnChoices : AddMissingFlags(which, c)

SpecMissing == InitClean /\ [][NextMissing]_vars

-----------------------------------------------------------------------------
(* Calls of handle_missing with strategy drop_cols on longer tables *)

\* columns whose absence rate is a double next to a whole percent: 29 absent of 50
\* (29 / 50 * 100.0 is below 58) and 11 absent of 20 (11 / 20 * 100.0 is above 55)
DropColsData ==
    {[i \in 1..50 |-> IF i <= 29 THEN NaN ELSE Num(i)],
     [i \in 1..20 |-> IF i <= 11 THEN NaN ELSE Num(i)]}

DropThresholds == {50, 55, 58, 60}

InitDropCols ==
    /\ \E data \in DataSeqs \cup DropColsData, cs \in CleanColSets :
          /\ df = MkTable(data, cs)
          /\ df2 = MkTable(OtherData(data), cs)
    /\ self = FeatureNormalizer(NormalizationSpec("standard", NONE, FALSE, -5, 5))
    /\ call = NoCall
    /\ ret = NoRet
    /\ hist = NoHist
    /\ pcF = 0 /\ pcT = 0 /\ loc = <<>>

NextDropCols ==
    \E which \in {"A", "B"}, c \in ColumnChoices, th \in DropThresholds :
        HandleMissing(which, MissingArgs(c, "drop_cols", Num(0), th, None, None, TRUE))

SpecDropCols == InitDropCols /\ [][NextDropCols]_vars

-----------------------------------------------------------------------------
(* Calls of handle_missing with the group strategies *)

\* the income column of the group example: with the keys x, y, x, y, x the
\* group x holds [10, 20, NA] and the group y holds [100, NA]
GroupData == {<<Num(10), Num(100), Num(20), NaN, NaN>>}

InitGroup ==
    /\ \E data \in DataSeqs \cup ScenarioData \cup GroupData, cs \in CleanColSets :
          /\ df = MkTable(data, cs)
          /\ df2 = MkTable(OtherData(data), cs)
    /\ self = FeatureNormalizer(NormalizationSpec("standard", NONE, FALSE, -5, 5))
    /\ call = NoCall
    /\ ret = NoRet
    /\ hist = NoHist
    /\ pcF = 0 /\ pcT = 0 /\ loc = <<>>

NextGroup ==
    \E which \in {"A", "B"} :
        \E a \in {x \in MissingCalls : x.strategy \in {"group_median", "group_mode"}} :
            HandleMissing(which, a)

SpecGroup == InitGroup /\ [][NextGroup]_vars

-----------------------------------------------------------------------------
(* 01_missing_values.py: compare_missing_before_after, called on a handle_missing result *)

\* one row of the comparison, for column c
compare_row(before, after, c) ==
    LET b == summary_rows(before, <<c>>, NRows(before))[1]
        a == summary_rows(after, <<c>>, NRows(after))[1]
    IN  [column |-> c,
         missing_cnt_before |-> b.missing_cnt, missing_pct_before |-> b.missing_pct,
         missing_cnt_after |-> a.missing_cnt, missing_pct_after |-> a.missing_pct,
         missing_cnt_delta |-> a.missing_cnt - b.missing_cnt,
         missing_pct_delta |-> RSub(a.missing_pct, b.missing_pct)]

\* the comparison over cols (columns of both frames): one row per label of the two
\* summaries, sorted by missing_pct_before. The frame is built on the index of b, or
\* on the sorted union of the two indexes when they differ in order; the sort that
\* follows returns the rows with the keys descending and equal keys in an order it
\* does not determine, whichever the order before it: every frame that can come out
compare_rows(before, after, cols) ==
    sort_values_desc([i \in DOMAIN cols |-> compare_row(before, after, cols[i])],
                     "missing_pct_before")

\* compare_missing_before_after(before, after, columns=columns): every outcome
compare_missing_before_after(before, after, columns) ==
    LET v == _validate_columns(before, columns)
    IN  IF v.err # "" THEN {[err |-> v.err, rows |-> <<>>]}
        ELSE {[err |-> "", rows |-> r] :
                 r \in compare_rows(before, after, SeqSelect(v.cols, Range(after.names)))}

\* after = handle_missing(before, ...); compare_missing_before_after(before, after,
\* columns=columns): the comparison becomes the report next to the returned table
CompareMissing ==
    /\ call.engine = "handle_missing"
    /\ ret.kind = "table"
    /\ \E r \in compare_missing_before_after(Arg(call.which), ret.table, call.arg.columns) :
          ret' = IF r.err = "" THEN [ret EXCEPT !.report = r.rows]
                 ELSE RaisedAt(r.err, ret.table)
    /\ call' = [call EXCEPT !.engine = "compare_missing_before_after"]
    /\ UNCHANGED <<df, df2, self, hist, pcF, pcT, loc>>

NextCompare ==
    \/ \E which \in {"A", "B"}, a \in MissingCalls : HandleMissing(which, a)
    \/ CompareMissing

SpecCompare == InitClean /\ [][NextCompare]_vars

-----------------------------------------------------------------------------
(* Calls of apply_outlier_policy on the caller's tables *)

OutlierColumnChoices == {NONE, <<>>, <<"a">>, <<"b", "a">>, <<"s">>, <<"zz", "s">>}

\* the policies used: every supported method and action and an unsupported name of
\* each, with the default thresholds and min_non_null = 30 (the default), 2 and 0
OutlierPolicies ==
    {OutlierPolicy(m, a, Frac(3, 2), Frac(7, 2), <<1, 100>>, <<99, 100>>, mn) :
        m \in SupportedMethods \cup {"zscore"}, a \in SupportedActions \cup {"remove"},
        mn \in {0, 2, 30}}

\* apply_outlier_policy keeps no state between calls: a behaviour makes one call
ApplyOutlierPolicy(which, columns, policy) ==
    LET r == apply_outlier_policy(<<Arg(which)>>, CallerRef, columns, policy, "__is_outlier")
    IN  /\ call = NoCall
        /\ Callers(which, r.heap)
        /\ call' = [engine |-> "apply_outlier_policy", which |-> which,
                    arg |-> [columns |-> columns, policy |-> policy]]
        /\ ret' = IF r.err = "" THEN Returned(r.heap[r.ref], r.report)
                  ELSE RaisedAt(r.err, r.heap[r.ref])
        /\ UNCHANGED <<self, hist, pcF, pcT, loc>>

NextOutlier ==
    \E which \in {"A", "B"}, columns \in OutlierColumnChoices, policy \in OutlierPolicies :
        ApplyOutlierPolicy(which, columns, policy)

\* the tables of the outlier calls: those of InitClean, and one whose numeric columns
\* differ in their number of present values
OutlierColSets == CleanColSets \cup {<<"a", "c">>}

InitOutlier ==
    /\ \E data \in DataSeqs \cup ScenarioData, cs \in OutlierColSets :
          /\ df = MkTable(data, cs)
          /\ df2 = MkTable(OtherData(data), cs)
    /\ self = FeatureNormalizer(NormalizationSpec("standard", NONE, FALSE, -5, 5))
    /\ call = NoCall
    /\ ret = NoRet
    /\ hist = NoHist
    /\ pcF = 0 /\ pcT = 0 /\ loc = <<>>

SpecOutlier == InitOutlier /\ [][NextOutlier]_vars

-----------------------------------------------------------------------------
(* Capping applied twice: cap_by_percentile, and apply_outlier_policy with action cap *)

\* the pairs <<lower_q, upper_q>> of quantiles capped at, each quantile as <<n, d>>
CapQuantiles ==
    {<<<<1, 100>>, <<99, 100>>>>, <<<<1, 4>>, <<3, 4>>>>, <<<<0, 1>>, <<1, 1>>>>}

\* a Series, as a table of one column
SeriesOf(c, col) == [names |-> <<c>>, cols |-> [x \in {c} |-> col]]

\* cap_by_percentile(s, lower_q, upper_q) on the Series t[c]; the values keep their dtype
CapSeries(t, c, q) ==
    SeriesOf(c, [t.cols[c] EXCEPT !.vals = cap_by_percentile(@, q[1], q[2])])

\* capped = cap_by_percentile(df[c], lower_q, upper_q); loc keeps the first result
CapByPercentile(which, c, q) ==
    /\ call = NoCall
    /\ HasCol(Arg(which), c) /\ is_numeric_dtype(Arg(which).cols[c])
    /\ call' = [engine |-> "cap_by_percentile", which |-> which,
                arg |-> [column |-> c, q |-> q, times |-> 1]]
    /\ ret' = Returned(CapSeries(Arg(which), c, q), <<>>)
    /\ loc' = <<CapSeries(Arg(which), c, q)>>
    /\ UNCHANGED <<df, df2, self, hist, pcF, pcT>>

\* cap_by_percentile(capped, lower_q, upper_q): the same quantiles, on the first result
CapByPercentileAgain ==
    /\ call.engine = "cap_by_percentile"
    /\ call.arg.times = 1
    /\ call' = [call EXCEPT !.arg.times = 2]
    /\ ret' = Returned(CapSeries(ret.table, call.arg.column, call.arg.q), <<>>)
    /\ UNCHANGED <<df, df2, self, hist, pcF, pcT, loc>>

\* cleaned, report = apply_outlier_policy(df, columns, policy) with action "cap"
ApplyCap(which, columns, policy) ==
    LET r == apply_outlier_policy(<<Arg(which)>>, CallerRef, columns, policy, "__is_outlier")
    IN  /\ call = NoCall
        /\ policy.action = "cap"
        /\ Callers(which, r.heap)
        /\ call' = [engine |-> "apply_outlier_policy", which |-> which,
                    arg |-> [columns |-> columns, policy |-> policy, times |-> 1]]
        /\ ret' = IF r.err = "" THEN Returned(r.heap[r.ref], r.report)
                  ELSE RaisedAt(r.err, r.heap[r.ref])
        /\ loc' = <<r.heap[r.ref]>>
        /\ UNCHANGED <<self, hist, pcF, pcT>>

\* apply_outlier_policy(cleaned, columns, policy): the same call on the first result
ApplyCapAgain ==
    /\ call.engine = "apply_outlier_policy"
    /\ call.arg.times = 1
    /\ ret.kind = "table"
    /\ LET r == apply_outlier_policy(<<ret.table>>, CallerRef, call.arg.columns,
                                     call.arg.policy, "__is_outlier")
       IN  ret' = IF r.err = "" THEN Returned(r.heap[r.ref], r.report)
                  ELSE RaisedAt(r.err, r.heap[r.ref])
    /\ call' = [call EXCEPT !.arg.times = 2]
    /\ UNCHANGED <<df, df2, self, hist, pcF, pcT, loc>>

NextCap ==
    \/ \E which \in {"A", "B"}, c \in {"a", "b", "c"}, q \in CapQuantiles :
          CapByPercentile(which, c, q)
    \/ CapByPercentileAgain
    \/ \E which \in {"A", "B"}, columns \in {NONE, <<"a">>},
          policy \in {x \in OutlierPolicies : x.method \in SupportedMethods} :
            ApplyCap(which, columns, policy)
    \/ ApplyCapAgain

SpecCap == InitOutlier /\ [][NextCap]_vars

-----------------------------------------------------------------------------
(* Flagging applied twice: apply_outlier_policy with action flag, then with another
   detection method on its own output *)

\* the policies with action "flag" and a supported method
FlagPolicies ==
    {x \in OutlierPolicies : x.action = "flag" /\ x.method \in SupportedMethods}

\* flagged, report = apply_outlier_policy(df, columns, policy); loc keeps the result
ApplyFlag(which, columns, policy) ==
    LET r == apply_outlier_policy(<<Arg(which)>>, CallerRef, columns, policy, "__is_outlier")
    IN  /\ call = NoCall
        /\ Callers(which, r.heap)
        /\ call' = [engine |-> "apply_outlier_policy", which |-> which,
                    arg |-> [columns |-> columns, policy |-> policy, times |-> 1]]
        /\ ret' = IF r.err = "" THEN Returned(r.heap[r.ref], r.report)
                  ELSE RaisedAt(r.err, r.heap[r.ref])
        /\ loc' = <<r.heap[r.ref]>>
        /\ UNCHANGED <<self, hist, pcF, pcT>>

\* apply_outlier_policy(flagged, ["a"], policy): a second call, on the first result
ApplyFlagAgain(policy) ==
    /\ call.engine = "apply_outlier_policy"
    /\ call.arg.times = 1
    /\ ret.kind = "table"
    /\ LET r == apply_outlier_policy(<<ret.table>>, CallerRef, <<"a">>, policy,
                                     "__is_outlier")
       IN  ret' = IF r.err = "" THEN Returned(r.heap[r.ref], r.report)
                  ELSE RaisedAt(r.err, r.heap[r.ref])
    /\ call' = [call EXCEPT !.arg.times = 2, !.arg.columns = <<"a">>,
                            !.arg.policy = policy]
    /\ UNCHANGED <<df, df2, self, hist, pcF, pcT, loc>>

NextFlag ==
    \/ \E which \in {"A", "B"}, columns \in {NONE, <<"a">>}, policy \in FlagPolicies :
          ApplyFlag(which, columns, policy)
    \/ \E policy \in FlagPolicies : ApplyFlagAgain(policy)

SpecFlag == InitOutlier /\ [][NextFlag]_vars

-----------------------------------------------------------------------------
(* Calls of detect_outliers_iqr on a column *)

\* the values of k used: the default 1.5, 0 and 3
IqrKs == {Frac(3, 2), Num(0), Num(3)}

\* mask = detect_outliers_iqr(df[c], k=k): the boolean Series returned
DetectOutliersIqr(which, c, k) ==
    /\ call = NoCall
    /\ HasCol(Arg(which), c) /\ is_numeric_dtype(Arg(which).cols[c])
    /\ call' = [engine |-> "detect_outliers_iqr", which |-> which,
                arg |-> [column |-> c, k |-> k]]
    /\ ret' = Returned(SeriesOf(c, Column("bool",
                    LET m == detect_outliers_iqr(Arg(which).cols[c].vals, k)
                    IN  [i \in DOMAIN m |-> Bool(m[i])])), <<>>)
    /\ UNCHANGED <<df, df2, self, hist, pcF, pcT, loc>>

NextIqr ==
    \E which \in {"A", "B"}, c \in {"a", "b", "c"}, k \in IqrKs : DetectOutliersIqr(which, c, k)

SpecIqr == InitOutlier /\ [][NextIqr]_vars

-----------------------------------------------------------------------------
(* Calls of detect_outliers_mad on a column *)

\* the thresholds used: the default 3.5, 0 and 1
MadZs == {Frac(7, 2), Num(0), Num(1)}

\* columns whose median absolute deviation is zero although the values differ
MadData == {<<Num(0), Num(0), Num(3)>>, <<Num(3), NaN, Num(3), Num(0), Num(3)>>}

InitMad ==
    /\ \E data \in DataSeqs \cup ScenarioData \cup MadData, cs \in OutlierColSets :
          /\ df = MkTable(data, cs)
          /\ df2 = MkTable(OtherData(data), cs)
    /\ self = FeatureNormalizer(NormalizationSpec("standard", NONE, FALSE, -5, 5))
    /\ call = NoCall
    /\ ret = NoRet
    /\ hist = NoHist
    /\ pcF = 0 /\ pcT = 0 /\ loc = <<>>

\* mask = detect_outliers_mad(df[c], z_th=z_th): the boolean Series returned
DetectOutliersMad(which, c, z_th) ==
    /\ call = NoCall
    /\ HasCol(Arg(which), c) /\ is_numeric_dtype(Arg(which).cols[c])
    /\ call' = [engine |-> "detect_outliers_mad", which |-> which,
                arg |-> [column |-> c, z_th |-> z_th]]
    /\ ret' = Returned(SeriesOf(c, Column("bool",
                    LET m == detect_outliers_mad(Arg(which).cols[c].vals, z_th)
                    IN  [i \in DOMAIN m |-> Bool(m[i])])), <<>>)
    /\ UNCHANGED <<df, df2, self, hist, pcF, pcT, loc>>

NextMad ==
    \E which \in {"A", "B"}, c \in {"a", "b", "c"}, z_th \in MadZs :
        DetectOutliersMad(which, c, z_th)

SpecMad == InitMad /\ [][NextMad]_vars

-----------------------------------------------------------------------------
(* The whole pipeline: every engine called on the caller's tables *)

PipeColSets == {<<"a", "b", "s", "t", "Raw $">>, <<"a", "s">>}

\* the DTypeFixSpec instances used: each list empty or naming present and absent columns
DTypeSpecs ==
    {DTypeFixSpec(nc, dc, bc, cc, FALSE, o[1], o[2]) :
        nc \in {<<>>, <<"raw", "a">>}, dc \in {<<>>, <<"t", "zz">>},
        bc \in {<<>>, <<"Raw $">>}, cc \in {<<>>, <<"s">>},
        o \in {<<FALSE, 1>>, <<TRUE, 2>>}}

PipeNormSpecs ==
    {NormalizationSpec("standard", NONE, FALSE, -5, 5),
     NormalizationSpec("log", <<"a", "b">>, TRUE, -1, 1),
     NormalizationSpec("yeo_johnson", NONE, TRUE, -1, 1)}

InitPipeline ==
    /\ \E data \in DataSeqs, cs \in PipeColSets :
          /\ df = MkTable(data, cs)
          /\ df2 = MkTable(OtherData(data), cs)
    /\ self = FeatureNormalizer(NormalizationSpec("standard", NONE, FALSE, -5, 5))
    /\ call = NoCall
    /\ ret = NoRet
    /\ hist = NoHist
    /\ pcF = 0 /\ pcT = 0 /\ loc = <<>>

\* normalizer = FeatureNormalizer(spec): the instance the later calls are made on
NormNew(spec) ==
    /\ call = NoCall
    /\ self' = FeatureNormalizer(spec)
    /\ call' = [engine |-> "__init__", which |-> "A", arg |-> spec]
    /\ UNCHANGED <<df, df2, ret, hist, pcF, pcT, loc>>

\* fix_dtypes keeps no state between calls: a behaviour makes one call
FixDtypes(which, spec, normalize_cols) ==
    LET r == fix_dtypes(<<Arg(which)>>, CallerRef, spec, normalize_cols)
    IN  /\ call = NoCall
        /\ Callers(which, r.heap)
        /\ call' = [engine |-> "fix_dtypes", which |-> which,
                    arg |-> [spec |-> spec, normalize_cols |-> normalize_cols]]
        /\ ret' = IF r.err = "" THEN Returned(r.heap[r.ref], r.report)
                  ELSE RaisedAt(r.err, r.heap[r.ref])
        /\ UNCHANGED <<self, hist, pcF, pcT, loc>>

\* the calls on a FeatureNormalizer follow its construction and each other
NormEngines == {"__init__", "fit", "transform", "fit_transform"}

PipeNorm(which) ==
    /\ call.engine \in NormEngines
    /\ (NormFit(which) \/ NormTransform(which) \/ NormFitTransform(which))

PipeMissing(which) ==
    \/ \E a \in {x \in MissingCalls : x.columns \in {NONE, <<"a", "zz">>}} :
          HandleMissing(which, a)
    \/ \E c \in {NONE, <<"a">>} : AddMissingFlags(which, c)

PipeOutlier(which) ==
    \E columns \in {NONE, <<"zz", "s">>},
       policy \in {x \in OutlierPolicies : x.min_non_null # 2} :
        ApplyOutlierPolicy(which, columns, policy)

PipeDtypes(which) ==
    \E spec \in DTypeSpecs, normalize_cols \in BOOLEAN : FixDtypes(which, spec, normalize_cols)

NextPipeline ==
    \/ \E spec \in PipeNormSpecs : NormNew(spec)
    \/ \E which \in {"A", "B"} :
        \/ PipeNorm(which)
        \/ PipeMissing(which)
        \/ PipeOutlier(which)
        \/ PipeDtypes(which)

SpecPipeline == InitPipeline /\ [][NextPipeline]_vars

\* the calls of fix_dtypes alone
NextDtypes == \E which \in {"A", "B"} : PipeDtypes(which)

SpecDtypes == InitPipeline /\ [][NextDtypes]_vars

-----------------------------------------------------------------------------
(* Calls of coerce_bool_series on a column of tokens *)

\* the cells of a column given to coerce_bool_series: texts of every kind (truthy,
\* falsy, padded, upper case, missing-value texts, other words), an absent value and
\* a Python bool
BoolCells ==
    {Str(x) : x \in {" Yes ", "y", "TRUE", "1", "On", "no", "N", "False", "0", "off",
                     "t", "F", "N/A", "", "maybe"}}
        \cup {NaN, Bool(TRUE)}

BoolSeqs == UNION {[1..n -> BoolCells] : n \in 0..MaxRows}

InitBool ==
    /\ \E data \in BoolSeqs :
          /\ df = SeriesOf("flag", Column("object", data))
          /\ df2 = SeriesOf("flag", Column("object", Reverse(data)))
    /\ self = FeatureNormalizer(NormalizationSpec("standard", NONE, FALSE, -5, 5))
    /\ call = NoCall
    /\ ret = NoRet
    /\ hist = NoHist
    /\ pcF = 0 /\ pcT = 0 /\ loc = <<>>

\* out, fail_rate = coerce_bool_series(df["flag"]): the Series and the rate returned
CoerceBool(which) ==
    LET r == coerce_bool_series(Arg(which).cols["flag"])
    IN  /\ call = NoCall
        /\ call' = [engine |-> "coerce_bool_series", which |-> which, arg |-> <<>>]
        /\ ret' = Returned(SeriesOf("flag", r.col), <<r.fail_rate>>)
        /\ UNCHANGED <<df, df2, self, hist, pcF, pcT, loc>>

NextBool == \E which \in {"A", "B"} : CoerceBool(which)

SpecBool == InitBool /\ [][NextBool]_vars

-----------------------------------------------------------------------------
(* Claims about the FeatureNormalizer (SpecNorm) *)

\* the columns a call on table t works on
Targets(t) == Range(_get_columns(self.spec, t))

IsTransformCall == call.engine = "transform"

\* the plain case of a call: a table with at least one row, no clipping
PlainCall == NRows(Arg(call.which)) > 0 /\ ~self.spec.clip

\* C2 (as claimed): a transform call on an instance that was never fitted, with a
\* stat-based method (standard, minmax, robust, yeo_johnson), raises for every table
\* (stated for the tables with at least one row, transformed without clipping).
C2_TransformBeforeFitRaises ==
    (/\ IsTransformCall /\ PlainCall
     /\ ~hist.fitted
     /\ self.spec.method \in StatMethods \cup {"yeo_johnson"})
        => ret.kind = "raise"

\* C3 (as claimed): after fit on a table with target columns C, transform on a table
\* that lacks a column of C raises; it never returns a table (stated for the tables
\* with at least one row, transformed without clipping).
C3_MissingFittedColumnFails ==
    (/\ IsTransformCall /\ PlainCall
     /\ hist.fitted /\ NRows(hist.fit) > 0
     /\ self.spec.method \in StatMethods \cup {"yeo_johnson"}
     /\ \E c \in Targets(hist.fit) : ~HasCol(Arg(call.which), c))
        => ret.kind = "raise"

\* the value transform must give x under the statistics of the fitted table's column
ExpectedValue(fitcol, x) ==
    LET m == self.spec.method
        v == scale(m, fit_stats(m, fitcol.vals), x)
    IN  IF self.spec.clip
        THEN clip_value(v, self.spec.clip_range[1], self.spec.clip_range[2])
        ELSE v

\* C4: a transform step leaves the instance (params_, power_transformer_) as it was,
\* and for a stat-based method every value of a returned column that the last fit
\* covered is the input value scaled with the statistics of the table given to that
\* fit (then clipped, if asked), never with statistics of the table being transformed.
C4_TransformUsesStoredFit ==
    [][(call'.engine = "transform") =>
          /\ self' = self
          /\ (hist.fitted /\ self.spec.method \in StatMethods /\ ret'.kind = "table") =>
                \A c \in Targets(Arg(call'.which)) \cap Targets(hist.fit) :
                    \A i \in 1..NRows(Arg(call'.which)) :
                        ret'.table.cols[c].vals[i] =
                            ExpectedValue(hist.fit.cols[c], Arg(call'.which).cols[c].vals[i])
      ]_vars

\* C4 witness: a table was returned by a standard-scaling transform of a dataset whose
\* own mean/std differ from those of the fitted dataset, with a non-absent value in it.
C4_Witness ==
    /\ IsTransformCall /\ hist.fitted /\ ret.kind = "table"
    /\ self.spec.method = "standard"
    /\ HasCol(hist.fit, "a") /\ HasCol(Arg(call.which), "a")
    /\ fit_stats("standard", hist.fit.cols["a"].vals)
          # fit_stats("standard", Arg(call.which).cols["a"].vals)
    /\ \E i \in 1..NRows(ret.table) : ret.table.cols["a"].vals[i] # NaN

\* C5: a fit given the same table as the fit before it leaves the stored parameters as
\* that first fit left them, so every transform gives the same output after fitting
\* twice as after fitting once.
C5_RefitSameTableIdempotent ==
    [][hist'.again =>
          /\ self' = self
          /\ \A w \in {"A", "B"} :
                transform(self', <<Arg(w)>>, CallerRef) = transform(self, <<Arg(w)>>, CallerRef)
      ]_vars

\* C5 witness: fit twice on one table, then a transform that returned scaled values.
C5_Witness ==
    /\ hist.again /\ IsTransformCall /\ ret.kind = "table"
    /\ self.spec.method = "standard"
    /\ "a" \in DOMAIN self.params_
    /\ self.params_["a"].std # Num(1)
    /\ HasCol(ret.table, "a") /\ NRows(ret.table) > 0

\* C9 (as claimed): with a method name other than standard, minmax, robust, log and
\* yeo_johnson, fit and transform raise; neither returns as if the method were a no-op
\* (stated for the tables with at least one row, without clipping).
C9_UnknownMethodRaises ==
    (/\ self.spec.method \notin KnownMethods
     /\ call.engine \in {"fit", "transform", "fit_transform"}
     /\ PlainCall)
        => ret.kind = "raise"

-----------------------------------------------------------------------------
(* Claims about handle_missing (SpecMissing) *)

\* C7: handle_missing called with a strategy name that is none of the eleven
\* supported names raises ValueError and returns no table, for every table and every
\* choice of columns (known, unknown, empty or all).
C7_UnknownStrategyRaises ==
    (call.engine = "handle_missing" /\ call.arg.strategy \notin FillStrategies)
        => (ret.kind = "raise" /\ ret.err = "ValueError")

\* C7 witness: strategy "bogus" on all columns of a table with an absent value in
\* column a, and with the group and time arguments supplied, raised.
C7_Witness ==
    /\ call.engine = "handle_missing"
    /\ call.arg.strategy = "bogus"
    /\ call.arg.columns = NONE
    /\ call.arg.groupby_col = "s" /\ call.arg.time_col = "t"
    /\ HasCol(Arg(call.which), "t")
    /\ NaCount(Arg(call.which).cols["a"].vals) > 0
    /\ ret.kind = "raise"

\* C10: handle_missing with strategy group_median or group_mode raises ValueError when
\* groupby_col is None or is not a column of the table, for every table and column
\* list, and at the raise no column of the working copy has been filled (it still
\* equals the input).
C10_GroupNeedsKeyColumn ==
    (/\ call.engine = "handle_missing"
     /\ call.arg.strategy \in {"group_median", "group_mode"}
     /\ (call.arg.groupby_col = None \/ ~HasCol(Arg(call.which), call.arg.groupby_col)))
        => (ret.kind = "raise" /\ ret.err = "ValueError" /\ ret.table = Arg(call.which))

\* C10 witness: group_median on column a, which has an absent and a present value,
\* grouped by "b" on a table without a column b, raised.
C10_Witness ==
    /\ call.engine = "handle_missing"
    /\ call.arg.strategy = "group_median"
    /\ call.arg.columns = <<"a">>
    /\ call.arg.groupby_col = "b"
    /\ ~HasCol(Arg(call.which), "b")
    /\ NaCount(Arg(call.which).cols["a"].vals) = 1
    /\ NRows(Arg(call.which)) = 2
    /\ ret.kind = "raise"

-----------------------------------------------------------------------------
(* Claims about apply_outlier_policy (SpecOutlier) *)

\* C8: apply_outlier_policy called with a policy whose method is not a supported
\* detection method, or whose action is not cap, flag or drop, raises and returns no
\* table and no report, for every table and column selection (also when every
\* requested column is non-numeric, absent, or has fewer than min_non_null values).
C8_UnsupportedPolicyRaises ==
    (/\ call.engine = "apply_outlier_policy"
     /\ \/ call.arg.policy.method \notin SupportedMethods
        \/ call.arg.policy.action \notin SupportedActions)
        => ret.kind = "raise"

-----------------------------------------------------------------------------
(* Claims about the whole pipeline (SpecPipeline) *)

\* C1: no call of fix_dtypes, handle_missing, add_missing_flags, apply_outlier_policy,
\* FeatureNormalizer.fit, transform or fit_transform changes a table of the caller:
\* after the call has returned or raised, for every policy, strategy and action, both
\* tables have the columns, rows and cell values they had before the call.
C1_CallerTableUnchanged == [][df' = df /\ df2' = df2]_vars

\* C1 witness: a call of handle_missing returned a table that differs from the table
\* it was given (column a, which had an absent value, is filled), and the caller's
\* table still has the absent value.
C1_Witness ==
    /\ call.engine = "handle_missing"
    /\ call.arg.strategy = "median"
    /\ ret.kind = "table"
    /\ NaCount(Arg(call.which).cols["a"].vals) > 0
    /\ NaCount(ret.table.cols["a"].vals) = 0
    /\ ret.table # Arg(call.which)

-----------------------------------------------------------------------------
(* Claims about the time-ordered strategies of handle_missing (SpecMissing) *)

\* C11: handle_missing with strategy ffill, bfill or interpolate_linear raises ValueError
\* when time_col is None or is not a column of the table, and at the raise no column of
\* the working copy has been filled (it still equals the input).
C11_TimeNeedsOrderColumn ==
    (/\ call.engine = "handle_missing"
     /\ call.arg.strategy \in {"ffill", "bfill", "interpolate_linear"}
     /\ (call.arg.time_col = None \/ ~HasCol(Arg(call.which), call.arg.time_col)))
        => (ret.kind = "raise" /\ ret.err = "ValueError" /\ ret.table = Arg(call.which))

-----------------------------------------------------------------------------
(* Claims about the report and the skip of apply_outlier_policy (SpecOutlier) *)

\* C12: when apply_outlier_policy is given a list of columns and returns, the returned
\* report has a row for every name of the list, whether the name is a numeric column,
\* a non-numeric column, or no column of the table at all.
C12_EveryRequestedColumnReported ==
    (/\ call.engine = "apply_outlier_policy"
     /\ call.arg.columns # NONE
     /\ ret.kind = "table")
        => \A c \in Range(call.arg.columns) :
              \E i \in DOMAIN ret.report : ret.report[i].column = c

\* the numeric columns an apply_outlier_policy call was asked to look at
NumericRequested == Range(select_numeric_columns(Arg(call.which), call.arg.columns))

\* those of them with fewer present values than policy.min_non_null
SkippedCols ==
    {c \in NumericRequested :
        NotNaCount(Arg(call.which).cols[c].vals) < call.arg.policy.min_non_null}

\* the rows of the input that no column with enough present values marks as outlier
\* (every row, unless the action is "drop")
RowsKept ==
    LET n == NRows(Arg(call.which))
        marked(i) == \E c \in NumericRequested \ SkippedCols :
                        detect(call.arg.policy, Arg(call.which).cols[c].vals).mask[i]
    IN  IF call.arg.policy.action = "drop"
        THEN IdxWhere([i \in 1..n |-> ~marked(i)], 1, n)
        ELSE [i \in 1..n |-> i]

\* the skip row of column c is in the report, with no outlier counted
HasSkipRow(c) ==
    \E i \in DOMAIN ret.report :
        /\ ret.report[i].column = c
        /\ ret.report[i].action = "skip (too few non-null)"
        /\ ret.report[i].outliers = 0

\* C13 as stated: when apply_outlier_policy returns, every numeric column with fewer
\* present values than min_non_null has in the output exactly its input values, has no
\* flag column, marks no row of the drop mask, and has a skip row with 0 outliers.
C13_SkippedColumnSameValues ==
    (call.engine = "apply_outlier_policy" /\ ret.kind = "table")
        => \A c \in SkippedCols :
              /\ ret.table.cols[c].vals = Arg(call.which).cols[c].vals
              /\ ~HasCol(ret.table, c \o "__is_outlier")
              /\ NRows(ret.table) = Len(RowsKept)
              /\ HasSkipRow(c)

\* C13, amended: when apply_outlier_policy returns, every numeric column with fewer
\* present values than min_non_null has in the output its input values on the rows
\* that are kept (all rows unless action "drop" removes rows that other columns mark),
\* has no flag column, marks no row of the drop mask itself, and has a skip row with
\* 0 outliers.
C13_SkippedColumnKeptAsIs ==
    (call.engine = "apply_outlier_policy" /\ ret.kind = "table")
        => \A c \in SkippedCols :
              /\ ret.table.cols[c].vals = SelectRowsOf(Arg(call.which).cols[c].vals, RowsKept)
              /\ ~HasCol(ret.table, c \o "__is_outlier")
              /\ NRows(ret.table) = Len(RowsKept)
              /\ HasSkipRow(c)

\* C13 witness: action "drop" with column a skipped (one present value, min_non_null 2)
\* and column c processed, whose outliers remove rows; the call returned.
C13_Witness ==
    /\ call.engine = "apply_outlier_policy"
    /\ call.arg.policy.action = "drop"
    /\ "a" \in SkippedCols
    /\ "c" \in NumericRequested \ SkippedCols
    /\ NotNaCount(Arg(call.which).cols["a"].vals) = 1
    /\ Len(RowsKept) < NRows(Arg(call.which))
    /\ ret.kind = "table"

-----------------------------------------------------------------------------
(* Claims about the shape of the returned tables (SpecPipeline) *)

\* the calls that may remove rows: outlier action "drop", missing-value strategy "drop_rows"
RowDropping ==
    \/ call.engine = "apply_outlier_policy" /\ call.arg.policy.action = "drop"
    \/ call.engine = "handle_missing" /\ call.arg.strategy = "drop_rows"

\* C14: every table an engine returns (fix_dtypes, handle_missing, add_missing_flags,
\* apply_outlier_policy, transform, fit_transform) has columns of one length, and that
\* length is the row count of the input table unless the call is a row-dropping one.
C14_ReturnedTableRectangular ==
    ret.kind = "table"
        => /\ \A c \in Range(ret.table.names) :
                Len(ret.table.cols[c].vals) = NRows(ret.table)
           /\ ~RowDropping =>
                \A c \in Range(ret.table.names) :
                    Len(ret.table.cols[c].vals) = NRows(Arg(call.which))

\* C14 witness: apply_outlier_policy with action "flag" returned a table of two rows
\* with a flag column added to the input's columns.
C14_Witness ==
    /\ call.engine = "apply_outlier_policy"
    /\ call.arg.policy.action = "flag"
    /\ ret.kind = "table"
    /\ Len(ret.table.names) > Len(Arg(call.which).names)
    /\ NRows(Arg(call.which)) = 2

-----------------------------------------------------------------------------
(* Claims about capping twice (SpecCap) *)

\* C15: capping a second time with the same cap_lower_q and cap_upper_q gives the
\* result of the first capping, for cap_by_percentile on a numeric column and for
\* apply_outlier_policy with action "cap".
C15_CappingIdempotent ==
    (/\ call.engine \in {"cap_by_percentile", "apply_outlier_policy"}
     /\ call.arg.times = 2
     /\ ret.kind = "table")
        => ret.table = loc[1]

-----------------------------------------------------------------------------
(* Claims about the missing counts before and after a fill (SpecCompare) *)

\* the strategies that fill absent cells
FillingStrategies ==
    {"constant", "mean", "median", "mode", "group_median", "group_mode", "ffill", "bfill",
     "interpolate_linear"}

\* C16: after a handle_missing call with a fill strategy, compare_missing_before_after
\* reports for every target column that had an absent value a missing_cnt_after
\* strictly below missing_cnt_before, and reports equal counts only for columns whose
\* cells the call left as they were.
C16_FillReducesMissing ==
    (/\ call.engine = "compare_missing_before_after"
     /\ call.arg.strategy \in FillingStrategies
     /\ ret.kind = "table")
        => \A i \in DOMAIN ret.report :
              LET r == ret.report[i]
              IN  /\ r.missing_cnt_before > 0 => r.missing_cnt_after < r.missing_cnt_before
                  /\ r.missing_cnt_after = r.missing_cnt_before =>
                        ret.table.cols[r.column].vals = Arg(call.which).cols[r.column].vals

-----------------------------------------------------------------------------
(* Claims about fix_dtypes and the coercions (SpecDtypes) *)

\* the table fix_dtypes works on: the input, with normalized labels when asked
DtypeWork ==
    IF call.arg.normalize_cols THEN normalize_column_names(Arg(call.which))
    ELSE Arg(call.which)

\* every column the spec of the call lists, in any of its four lists
DtypeListed ==
    Range(call.arg.spec.numeric_cols) \cup Range(call.arg.spec.datetime_cols)
        \cup Range(call.arg.spec.bool_cols) \cup Range(call.arg.spec.category_cols)

\* the dtype a listed column has after the last conversion the spec asks of it
DtypeAsked(c) ==
    IF Contains(call.arg.spec.category_cols, c) THEN "category"
    ELSE IF Contains(call.arg.spec.bool_cols, c) THEN "boolean"
    ELSE IF Contains(call.arg.spec.datetime_cols, c)
    THEN (IF call.arg.spec.utc_for_datetime THEN "datetime64[ns, UTC]" ELSE "datetime64[ns]")
    ELSE "float64"

\* C17: when a column listed in the spec of fix_dtypes is not in the table, the call
\* still returns; the report has a skip row for every listed column that is absent,
\* and every listed column that is present is converted to the dtype asked and has
\* a report row with that dtype, wherever the absent column stands in the lists.
C17_AbsentColumnSkipped ==
    (/\ call.engine = "fix_dtypes"
     /\ \E c \in DtypeListed : ~HasCol(DtypeWork, c))
        => /\ ret.kind = "table"
           /\ \A c \in DtypeListed :
                IF ~HasCol(DtypeWork, c)
                THEN /\ ~HasCol(ret.table, c)
                     /\ \E i \in DOMAIN ret.report :
                            /\ ret.report[i].column = c
                            /\ ret.report[i].note = "SKIP: column not found"
                ELSE /\ ret.table.cols[c].dtype = DtypeAsked(c)
                     /\ \E i \in DOMAIN ret.report :
                            /\ ret.report[i].column = c
                            /\ ret.report[i].after_dtype = DtypeAsked(c)
                            /\ ret.report[i].note # "SKIP: column not found"

\* C17 witness: the numeric list names an absent column ("raw") before a present one
\* ("a"), the datetime list a present one ("t") before an absent one ("zz"); the call
\* returned with column a as float64 and column t as datetime.
C17_Witness ==
    /\ call.engine = "fix_dtypes"
    /\ call.arg.spec.numeric_cols = <<"raw", "a">>
    /\ call.arg.spec.datetime_cols = <<"t", "zz">>
    /\ ~HasCol(DtypeWork, "raw") /\ HasCol(DtypeWork, "t")
    /\ NRows(Arg(call.which)) = 2
    /\ ret.kind = "table"
    /\ Len(ret.report) >= 4

\* the rows at which the column c of the working table had a value before the call
PresentBefore(c) == {j \in 1..NRows(DtypeWork) : ~IsNa(DtypeWork.cols[c].vals[j])}

\* those of them at which the converted column has none
FailedToParse(c) == {j \in PresentBefore(c) : IsNa(ret.table.cols[c].vals[j])}

\* C18: the parse_fail_rate fix_dtypes reports for a numeric column (the rate
\* coerce_numeric_series returns) is the number of values that were present and could
\* not be parsed divided by the number of values that were present; values already
\* absent count neither as failures nor in the denominator.
C18_FailRateOverPresentValues ==
    (call.engine = "fix_dtypes" /\ ret.kind = "table")
        => \A i \in DOMAIN ret.report :
              (/\ Contains(call.arg.spec.numeric_cols, ret.report[i].column)
               /\ HasCol(DtypeWork, ret.report[i].column)
               /\ PresentBefore(ret.report[i].column) # {})
                  => ret.report[i].parse_fail_rate =
                        Frac(Cardinality(FailedToParse(ret.report[i].column)),
                             Cardinality(PresentBefore(ret.report[i].column)))

-----------------------------------------------------------------------------
(* Claims about coerce_bool_series (SpecBool) *)

\* the trimmed, lower-cased text of row i of the column given to coerce_bool_series
BoolText(i) == lower(strip(CellChars("object", Arg(call.which).cols["flag"].vals[i])))

\* the vocabulary of the specification
VocabularyTrue == {<<"y", "e", "s">>, <<"y">>, <<"t", "r", "u", "e">>, <<"1">>, <<"o", "n">>}

VocabularyFalse == {<<"n", "o">>, <<"n">>, <<"f", "a", "l", "s", "e">>, <<"0">>, <<"o", "f", "f">>}

\* C19: coerce_bool_series returns for every column; a value becomes True exactly
\* when its trimmed, lower-cased text is one of yes/y/true/1/on, False exactly when
\* it is one of no/n/false/0/off, and absent for every other token.
C19_BoolVocabulary ==
    call.engine = "coerce_bool_series"
        => /\ ret.kind = "table"
           /\ \A i \in 1..NRows(Arg(call.which)) :
                ret.table.cols["flag"].vals[i] =
                    IF BoolText(i) \in VocabularyTrue THEN Bool(TRUE)
                    ELSE IF BoolText(i) \in VocabularyFalse THEN Bool(FALSE)
                    ELSE NaN

-----------------------------------------------------------------------------
(* Claims about detect_outliers_iqr (SpecIqr) *)

\* the column a detect_outliers_iqr call was given, and its non-absent values
IqrInput == Arg(call.which).cols[call.arg.column].vals

IqrQ1 == quantile(SeqDropNa(IqrInput), 1, 4)

IqrQ3 == quantile(SeqDropNa(IqrInput), 3, 4)

\* the bounds of the specification: [Q1, Q3] when the IQR is zero, else
\* [Q1 - k * IQR, Q3 + k * IQR]
IqrLower ==
    IF IqrQ1 = IqrQ3 THEN IqrQ1 ELSE RSub(IqrQ1, RMul(call.arg.k, RSub(IqrQ3, IqrQ1)))

IqrUpper ==
    IF IqrQ1 = IqrQ3 THEN IqrQ3 ELSE RAdd(IqrQ3, RMul(call.arg.k, RSub(IqrQ3, IqrQ1)))

\* C20: detect_outliers_iqr flags a value exactly when it is present and lies strictly
\* below Q1 - k * IQR or strictly above Q3 + k * IQR of the column's non-absent values
\* (below Q1 or above Q3 when the IQR is zero); an absent value is never flagged; on
\* [1, 2, 3, 4, 5, 100] with k = 1.5 only 100 is flagged.
C20_IqrFlagsStrictlyOutside ==
    call.engine = "detect_outliers_iqr"
        => /\ ret.kind = "table"
           /\ \A i \in DOMAIN IqrInput :
                ret.table.cols[call.arg.column].vals[i] =
                    Bool(/\ ~IsNa(IqrInput[i])
                         /\ (RLt(IqrInput[i], IqrLower) \/ RLt(IqrUpper, IqrInput[i])))
           /\ (IqrInput = <<Num(1), Num(2), Num(3), Num(4), Num(5), Num(100)>>
                 /\ call.arg.k = Frac(3, 2))
                => ret.table.cols[call.arg.column].vals =
                      <<Bool(FALSE), Bool(FALSE), Bool(FALSE), Bool(FALSE), Bool(FALSE),
                        Bool(TRUE)>>

\* C20 witness: the call on [1, 2, 3, 4, 5, 100] with k = 1.5 returned a mask that
\* flags the last value.
C20_Witness ==
    /\ call.engine = "detect_outliers_iqr"
    /\ IqrInput = <<Num(1), Num(2), Num(3), Num(4), Num(5), Num(100)>>
    /\ call.arg.k = Frac(3, 2)
    /\ ret.kind = "table"
    /\ ret.table.cols[call.arg.column].vals[6] = Bool(TRUE)

-----------------------------------------------------------------------------
(* Claims about detect_outliers_mad (SpecMad) *)

\* the column a detect_outliers_mad call was given
MadInput == Arg(call.which).cols[call.arg.column].vals

\* the median of its non-absent values, and the median of their distances to it
MadMedian == median(SeqDropNa(MadInput))

MadOfInput ==
    median([i \in DOMAIN SeqDropNa(MadInput) |->
                RAbs(RSub(SeqDropNa(MadInput)[i], MadMedian))])

\* the MAD is zero, or the column has no non-absent value
MadDegenerate == SeqDropNa(MadInput) = <<>> \/ MadOfInput = Num(0)

\* |0.6745 * (x - median) / MAD| for a non-absent x
MadScore(x) == RAbs(RDiv(RMul(Frac(6745, 10000), RSub(x, MadMedian)), MadOfInput))

\* C21: detect_outliers_mad flags a value exactly when |0.6745 * (x - median) / MAD|
\* exceeds the threshold; when the MAD is zero or the column has no non-absent value,
\* no value is flagged, whatever the values and the threshold >= 0.
C21_MadFlagsAboveThreshold ==
    call.engine = "detect_outliers_mad"
        => /\ ret.kind = "table"
           /\ Len(ret.table.cols[call.arg.column].vals) = Len(MadInput)
           /\ \A i \in DOMAIN MadInput :
                ret.table.cols[call.arg.column].vals[i] =
                    Bool(/\ ~MadDegenerate
                         /\ ~IsNa(MadInput[i])
                         /\ RLt(call.arg.z_th, MadScore(MadInput[i])))

\* C21 witness: a call with threshold 0 on a column with differing values and a zero
\* MAD returned a mask that flags nothing.
C21_Witness ==
    /\ call.engine = "detect_outliers_mad"
    /\ ret.kind = "table"
    /\ MadOfInput = Num(0)
    /\ \E i, j \in DOMAIN MadInput :
          IsNum(MadInput[i]) /\ IsNum(MadInput[j]) /\ MadInput[i] # MadInput[j]
    /\ call.arg.z_th = Num(0)
    /\ \A i \in DOMAIN MadInput : ret.table.cols[call.arg.column].vals[i] = Bool(FALSE)

-----------------------------------------------------------------------------
(* Claims about the actions of apply_outlier_policy (SpecOutlier) *)

\* the columns an apply_outlier_policy call processed: numeric, asked for, and with at
\* least policy.min_non_null present values
ProcessedCols == NumericRequested \ SkippedCols

\* the input values of column c, and the two quantiles of its non-absent values
InVals(c) == Arg(call.which).cols[c].vals

CapLo(c) ==
    quantile(SeqDropNa(InVals(c)), call.arg.policy.cap_lower_q[1],
             call.arg.policy.cap_lower_q[2])

CapHi(c) ==
    quantile(SeqDropNa(InVals(c)), call.arg.policy.cap_upper_q[1],
             call.arg.policy.cap_upper_q[2])

\* C22: with action "cap", no row is removed and, in every processed column of the
\* output, an absent value stays absent, every non-absent value lies within [lo, hi]
\* (the cap_lower_q and cap_upper_q quantiles of the column's non-absent input values),
\* and a value already inside [lo, hi] is unchanged.
C22_CapWithinQuantiles ==
    (/\ call.engine = "apply_outlier_policy"
     /\ call.arg.policy.action = "cap"
     /\ ret.kind = "table")
        => /\ NRows(ret.table) = NRows(Arg(call.which))
           /\ \A c \in ProcessedCols :
                /\ HasCol(ret.table, c)
                /\ Len(ret.table.cols[c].vals) = Len(InVals(c))
                /\ \A i \in DOMAIN InVals(c) :
                     /\ IsNa(InVals(c)[i]) <=> IsNa(ret.table.cols[c].vals[i])
                     /\ ~IsNa(InVals(c)[i])
                          => /\ RLe(CapLo(c), ret.table.cols[c].vals[i])
                             /\ RLe(ret.table.cols[c].vals[i], CapHi(c))
                     /\ (RLe(CapLo(c), InVals(c)[i]) /\ RLe(InVals(c)[i], CapHi(c)))
                          => ret.table.cols[c].vals[i] = InVals(c)[i]

\* C22 witness: a "cap" call returned a table in which a processed column has a value
\* lowered to the upper quantile, a value left as it was, and an absent value.
C22_Witness ==
    /\ call.engine = "apply_outlier_policy"
    /\ call.arg.policy.action = "cap"
    /\ ret.kind = "table"
    /\ \E c \in ProcessedCols :
          /\ \E i \in DOMAIN InVals(c) :
                RLt(CapHi(c), InVals(c)[i]) /\ ret.table.cols[c].vals[i] = CapHi(c)
          /\ \E i \in DOMAIN InVals(c) :
                IsNum(InVals(c)[i]) /\ ret.table.cols[c].vals[i] = InVals(c)[i]
          /\ \E i \in DOMAIN InVals(c) : IsNa(InVals(c)[i])

\* the table a "flag" call was given: the caller's table, or the first call's result
FlagInput == IF call.arg.times = 1 THEN Arg(call.which) ELSE loc[1]

\* the columns of it the call processed
FlagProcessed ==
    {c \in Range(select_numeric_columns(FlagInput, call.arg.columns)) :
        NotNaCount(FlagInput.cols[c].vals) >= call.arg.policy.min_non_null}

\* the rows of column c the detection method of the call flags
FlagMask(c) == detect(call.arg.policy, FlagInput.cols[c].vals).mask

\* C23: with action "flag", apply_outlier_policy changes no existing value: every input
\* column appears in the output with identical values, and the only difference is one
\* added boolean column "<col>__is_outlier" per processed column, true exactly on the
\* rows the detection method flagged and false where the value is absent.
C23_FlagChangesNoValue ==
    (/\ call.engine = "apply_outlier_policy"
     /\ call.arg.policy.action = "flag"
     /\ ret.kind = "table")
        => /\ \A c \in Range(FlagInput.names) :
                HasCol(ret.table, c) /\ ret.table.cols[c] = FlagInput.cols[c]
           /\ Range(ret.table.names) =
                Range(FlagInput.names) \cup {c \o "__is_outlier" : c \in FlagProcessed}
           /\ \A c \in FlagProcessed :
                /\ HasCol(ret.table, c \o "__is_outlier")
                /\ ret.table.cols[c \o "__is_outlier"].dtype = "bool"
                /\ \A i \in DOMAIN FlagInput.cols[c].vals :
                     ret.table.cols[c \o "__is_outlier"].vals[i] =
                        Bool(FlagMask(c)[i] /\ ~IsNa(FlagInput.cols[c].vals[i]))

\* row i of the input is flagged by the detection method in some processed column
FlaggedRow(i) ==
    \E c \in ProcessedCols : detect(call.arg.policy, InVals(c)).mask[i]

\* the input rows flagged in no processed column, in their original order
UnflaggedRows ==
    IdxWhere([i \in 1..NRows(Arg(call.which)) |-> ~FlaggedRow(i)], 1,
             NRows(Arg(call.which)))

\* the "__ROW_FILTER__" rows of the returned report
RowFilterRows == {i \in DOMAIN ret.report : ret.report[i].column = "__ROW_FILTER__"}

\* C24: with action "drop", the output table consists of exactly the input rows flagged
\* in none of the processed columns, in their original order and with unchanged values;
\* the report has one "__ROW_FILTER__" row whose rows-before is the input row count and
\* whose rows-after is rows-before minus the number of rows flagged in at least one
\* processed column.
C24_DropRemovesFlaggedRows ==
    (/\ call.engine = "apply_outlier_policy"
     /\ call.arg.policy.action = "drop"
     /\ ret.kind = "table")
        => /\ ret.table.names = Arg(call.which).names
           /\ \A c \in Range(Arg(call.which).names) :
                /\ ret.table.cols[c].dtype = Arg(call.which).cols[c].dtype
                /\ ret.table.cols[c].vals = SelectRowsOf(InVals(c), UnflaggedRows)
           /\ Cardinality(RowFilterRows) = 1
           /\ \A i \in RowFilterRows :
                /\ ret.report[i].action = "drop rows"
                /\ ret.report[i].non_null = NRows(Arg(call.which))
                /\ ret.report[i].notes =
                      <<Str("rows"), Num(NRows(Arg(call.which))), Num(Len(UnflaggedRows))>>
                /\ Len(UnflaggedRows) =
                      NRows(Arg(call.which))
                        - Cardinality({r \in 1..NRows(Arg(call.which)) : FlaggedRow(r)})

\* C24 witness: a "drop" call returned a table from which a flagged row was removed
\* while other rows were kept.
C24_Witness ==
    /\ call.engine = "apply_outlier_policy"
    /\ call.arg.policy.action = "drop"
    /\ ret.kind = "table"
    /\ \E i \in 1..NRows(Arg(call.which)) : FlaggedRow(i)
    /\ 0 < NRows(ret.table)
    /\ NRows(ret.table) < NRows(Arg(call.which))
    /\ RowFilterRows # {}

-----------------------------------------------------------------------------
(* Claims about the strategies of handle_missing (SpecMissing) *)

\* the target columns of a handle_missing call that passed the validation
MissingTargets ==
    IF call.arg.columns = NONE THEN Range(Arg(call.which).names)
    ELSE Range(call.arg.columns)

\* the absence rate of column c of the input, in percent (0 for a table with no row)
AbsencePct(c) ==
    IF NRows(Arg(call.which)) = 0 THEN Num(0)
    ELSE Frac(100 * NaCount(InVals(c)), NRows(Arg(call.which)))

\* a drop_cols call on a column with 29 absent values of 50 and threshold 58 has
\* returned: the rate is the double below 58, and the column is kept
DropColsRateBelowThreshold ==
    /\ call.engine = "handle_missing"
    /\ call.arg.strategy = "drop_cols"
    /\ call.arg.drop_threshold_pct = 58
    /\ call.arg.columns = <<"a">>
    /\ ret.kind = "table"
    /\ NRows(Arg(call.which)) = 50
    /\ AbsencePct("a") = Num(58)
    /\ HasCol(ret.table, "a")

\* C25: handle_missing with strategy "drop_cols" removes a target column exactly when
\* its absence rate in percent exceeds drop_threshold_pct; a target column whose rate
\* is equal to or below the threshold, and every non-target column, is kept with
\* unchanged values.
C25_DropColsAboveThreshold ==
    (/\ call.engine = "handle_missing"
     /\ call.arg.strategy = "drop_cols"
     /\ ret.kind = "table")
        => \A c \in Range(Arg(call.which).names) :
              IF c \in MissingTargets
                   /\ RLt(Num(call.arg.drop_threshold_pct), AbsencePct(c))
              THEN ~HasCol(ret.table, c)
              ELSE HasCol(ret.table, c) /\ ret.table.cols[c] = Arg(call.which).cols[c]

\* the rows of the input in the group of row i: those whose groupby_col value is
\* present and equal to that of row i (a row with an absent key is in no group)
GroupOf(i) ==
    {j \in 1..NRows(Arg(call.which)) :
        /\ ~IsNa(InVals(call.arg.groupby_col)[i])
        /\ InVals(call.arg.groupby_col)[j] = InVals(call.arg.groupby_col)[i]}

\* the median of the non-absent values of column c in the group of row i (absent when
\* there is none)
GroupMedian(c, i) ==
    median(SelectRowsOf(InVals(c),
                        IdxWhere([j \in 1..NRows(Arg(call.which)) |->
                                    j \in GroupOf(i) /\ ~IsNa(InVals(c)[j])],
                                 1, NRows(Arg(call.which)))))

\* C26: handle_missing with strategy "group_median" replaces each absent value of a
\* numeric target column by the median of the non-absent values of that column among
\* the rows with the same groupby_col value, never by a statistic of another group or
\* of the whole column: the groups [10, 20, NA] and [100, NA] are filled with 15 and 100.
C26_GroupMedianWithinGroup ==
    (/\ call.engine = "handle_missing"
     /\ call.arg.strategy = "group_median"
     /\ ret.kind = "table")
        => /\ \A c \in MissingTargets :
                is_numeric_dtype(Arg(call.which).cols[c])
                  => \A i \in DOMAIN InVals(c) :
                        IsNa(InVals(c)[i])
                          => ret.table.cols[c].vals[i] = GroupMedian(c, i)
           /\ (/\ "a" \in MissingTargets
               /\ call.arg.groupby_col = "s"
               /\ InVals("a") = <<Num(10), Num(100), Num(20), NaN, NaN>>)
                => ret.table.cols["a"].vals =
                      <<Num(10), Num(100), Num(20), Num(100), Num(15)>>

\* C26 witness: the call on the group example returned, with the absent value of
\* each group filled.
C26_Witness ==
    /\ call.engine = "handle_missing"
    /\ call.arg.strategy = "group_median"
    /\ call.arg.groupby_col = "s"
    /\ "a" \in MissingTargets
    /\ InVals("a") = <<Num(10), Num(100), Num(20), NaN, NaN>>
    /\ ret.kind = "table"
    /\ ret.table.cols["a"].vals[4] = Num(100)
    /\ ret.table.cols["a"].vals[5] = Num(15)

-----------------------------------------------------------------------------
(* Claims about the zero-spread guard (SpecSpread), the log method (SpecLog) and *)
(* refits (SpecNorm) *)

\* the column given to the last fit has zero standard deviation (its present values
\* are all the same number), zero range (minmax) or zero IQR (robust)
ZeroSpread(vals) ==
    CASE self.spec.method = "standard" -> IsConstant(SeqFilterNum(vals))
      [] self.spec.method = "minmax"   -> IsNum(min(vals)) /\ max(vals) = min(vals)
      [] self.spec.method = "robust"   -> quantile(vals, 3, 4) = quantile(vals, 1, 4)
                                            /\ IsNum(quantile(vals, 1, 4))
      [] OTHER -> FALSE

\* the stored mean (standard), min (minmax) or median (robust) of a fitted column
StoredCentre(vals) ==
    CASE self.spec.method = "standard" -> mean(vals)
      [] self.spec.method = "minmax"   -> min(vals)
      [] self.spec.method = "robust"   -> median(vals)

\* x minus the stored centre, clipped to clip_range when the instance clips
MinusCentre(vals, x) ==
    IF self.spec.clip
    THEN clip_value(FloatSub(x, StoredCentre(vals)), self.spec.clip_range[1],
                    self.spec.clip_range[2])
    ELSE FloatSub(x, StoredCentre(vals))

\* C27: for standard, minmax and robust scaling, when the fitted column has zero
\* standard deviation, zero range or zero IQR, the denominator used by transform is
\* 1.0: every transformed value equals x minus the stored mean, min or median (then
\* clipped, if the instance clips) and no division by zero occurs, for any input table.
C27_ZeroSpreadDividesByOne ==
    (/\ call.engine \in {"transform", "fit_transform"}
     /\ hist.fitted
     /\ self.spec.method \in StatMethods
     /\ ret.kind = "table")
        => \A c \in Targets(Arg(call.which)) \cap Targets(hist.fit) :
              ZeroSpread(hist.fit.cols[c].vals)
                => \A i \in 1..NRows(Arg(call.which)) :
                      ret.table.cols[c].vals[i] =
                          MinusCentre(hist.fit.cols[c].vals, Arg(call.which).cols[c].vals[i])

\* log1p of x with the negative values taken as 0, clipped when the instance clips
LogValue(x) ==
    LET y == IF IsNa(x) THEN NaN
             ELSE IF RLe(x, Num(0)) THEN Num(0)
             ELSE [x EXCEPT !.k = "log1p"]
    IN  IF self.spec.clip
        THEN clip_value(y, self.spec.clip_range[1], self.spec.clip_range[2])
        ELSE y

\* C28: the log method is stateless: no call stores a parameter, fit returns, and a
\* transform (of numeric target columns) returns a table whether or not fit was ever
\* called; its output depends on the input alone, the same before and after any fit,
\* with every negative input mapped to the result of input 0, namely 0.
C28_LogIsStateless ==
    self.spec.method = "log"
        => /\ self.params_ = <<>>
           /\ self.power_transformer_ = NoTransformer
           /\ call.engine = "fit" => ret.kind = "self"
           /\ call.engine \in {"transform", "fit_transform"}
                => /\ ret.kind = "table"
                   /\ \A c \in Targets(Arg(call.which)) :
                        \A i \in 1..NRows(Arg(call.which)) :
                            ret.table.cols[c].vals[i] =
                                LogValue(Arg(call.which).cols[c].vals[i])

\* C28 witness: a transform on a never fitted instance, or one after a fit on the
\* other table, returned 0 for a negative input and for an input 0.
C28_Witness ==
    /\ self.spec.method = "log"
    /\ call.engine = "transform"
    /\ ret.kind = "table"
    /\ (~hist.fitted \/ hist.fit # Arg(call.which))
    /\ \E c \in Targets(Arg(call.which)) :
          \E i, j \in 1..NRows(Arg(call.which)) :
              /\ Arg(call.which).cols[c].vals[i] = Num(-3)
              /\ Arg(call.which).cols[c].vals[j] = Num(0)
              /\ ret.table.cols[c].vals[i] = Num(0)
              /\ ret.table.cols[c].vals[j] = Num(0)

\* C29: after any sequence of fit calls on one FeatureNormalizer (on tables with
\* possibly different column sets), params_ holds an entry for exactly the target
\* columns of the most recent fit, each computed from that most recent table; no
\* entry computed by an earlier fit remains.
C29_ParamsOfLastFitOnly ==
    (hist.fitted /\ self.spec.method \in StatMethods)
        => /\ DOMAIN self.params_ = Targets(hist.fit)
           /\ \A c \in Targets(hist.fit) :
                self.params_[c] = fit_stats(self.spec.method, hist.fit.cols[c].vals)

\* the strategies of handle_missing that fill (the two others drop rows or columns)
FillOnly ==
    {"constant", "mean", "median", "mode", "group_median", "group_mode", "ffill", "bfill",
     "interpolate_linear"}

\* the input row each output row comes from: the rows ordered by time_col when a
\* time-based strategy sorts, else the rows as they are
RowSource ==
    IF /\ call.arg.strategy \in {"ffill", "bfill", "interpolate_linear"}
       /\ call.arg.time_col # None
       /\ call.arg.sort_time
    THEN SortIdx(InVals(call.arg.time_col), NRows(Arg(call.which)))
    ELSE [i \in 1..NRows(Arg(call.which)) |-> i]

\* C30: for every fill strategy of handle_missing, the output differs from the input
\* only in cells of target columns that were absent in the input: every non-absent cell
\* of a target column and every cell of a non-target column keeps its value in its own
\* row, and no column's absent count increases (the time-based strategies may reorder
\* the rows by time_col, the records of a row staying aligned across the columns).
C30_FillTouchesOnlyAbsentTargets ==
    (/\ call.engine = "handle_missing"
     /\ call.arg.strategy \in FillOnly
     /\ ret.kind = "table")
        => /\ ret.table.names = Arg(call.which).names
           /\ \A c \in Range(Arg(call.which).names) :
                /\ Len(ret.table.cols[c].vals) = Len(InVals(c))
                /\ NaCount(ret.table.cols[c].vals) <= NaCount(InVals(c))
                /\ \A r \in DOMAIN InVals(c) :
                     (c \notin MissingTargets \/ ~IsNa(InVals(c)[RowSource[r]]))
                        => ret.table.cols[c].vals[r] = InVals(c)[RowSource[r]]

\* C30 witness: a forward fill ordered by time_col returned a table whose rows are
\* reordered and in which an absent cell of a target column was filled.
C30_Witness ==
    /\ call.engine = "handle_missing"
    /\ call.arg.strategy = "ffill"
    /\ call.arg.time_col = "t"
    /\ call.arg.sort_time
    /\ ret.kind = "table"
    /\ \E r \in 1..NRows(Arg(call.which)) : RowSource[r] # r
    /\ \E c \in MissingTargets :
          \E r \in DOMAIN InVals(c) :
              IsNa(InVals(c)[RowSource[r]]) /\ ~IsNa(ret.table.cols[c].vals[r])
    /\ \E c \in Range(Arg(call.which).names) \ MissingTargets :
          \E r \in DOMAIN InVals(c) : IsNa(InVals(c)[r])

====
